---------------------------- MODULE Spec2Model ----------------------------
(***************************************************************************)
(* img-router: an OpenAI-compatible chat-completion gateway that routes a  *)
(* request to one of four image-generation backends by the shape of the    *)
(* presented API key.                                                      *)
(*                                                                         *)
(* Strings are sequences of one-character strings, so that prefix tests,   *)
(* regular expressions and string equality are computed, not assumed.      *)
(***************************************************************************)
EXTENDS Integers, Sequences, FiniteSets, TLC

VARIABLES
    pc,          \* position of the operation under way
    apiKey,      \* the credential handed to detectProvider
    provider,    \* what detectProvider returned ("None" before the call)
    routingLog,  \* the events logProviderRouting received, in order
    messages,    \* the transcript handed to extractPromptAndImages
    extracted,   \* the {prompt, images} it returned
    pathname,    \* url.pathname of the request
    authHeader,  \* req.headers.get("Authorization"): [present, value]
    requestBody, \* the body of the request: [kind, messages, stream]
    invoked,     \* the adapter handlers called for the request, in order
    outbound,    \* the number of backend calls issued for the request
    outcome,     \* how the adapter ended: "none", "returned" or "threw"
    response,    \* the Response returned: [status, kind, provider]
    backendData, \* the backend's successful answer: [answered, images]
    imageContent,\* the string the adapter handler returned
    responseBody,\* the parts of the response body, in order
    pollingAttempts, \* handleModelScope: the loop iterations begun
    sleeps,          \* the 5-second sleeps taken
    pollRequests,    \* the GET requests issued against the task
    statusPending,   \* the polls answered with a status that is not terminal
    httpErrors,      \* the polls answered with a non-success HTTP status
    lastAnswer,      \* what the backend answered last
    result,          \* how handleModelScope ended
    logEvents,       \* the call and failure events it logged, in order
    taskId,          \* submitData.task_id ("none" before the submit answered)
    checkData,       \* the JSON body of the poll answered last
    returned,        \* what handleModelScope returned or threw
    pool,        \* handleHuggingFace: the number of URLs in apiUrls
    hfIndex,     \* the position in apiUrls of the URL being tried, from 1
    hfCalls,     \* the requests issued, in order: [url, step]
    lastError,   \* the error the catch block recorded last: [url, kind]
    hfResult,    \* how handleHuggingFace ended: [kind, url, value]
    hfLog,       \* the call and failure events it logged, in order
    timer,       \* the abort timer of fetchWithTimeout: "armed" or "cleared"
    sseText,     \* the lines of the result response read last
    sseOutcome,  \* what extractImageUrlFromSSE made of them: [kind, url]
    requests,    \* requests handled at the same time: the locals of each
    syncHandler, \* handleVolcEngine or handleGitee: the handler invoked
    syncImages,  \* the images argument of the handler
    syncLog,     \* the call and failure events it logged, in order
    syncResult,  \* how it ended: [kind, content]
    syncBody,    \* the reqBody argument: [model, size]
    syncPrompt,  \* the prompt argument
    downloads,   \* the urlToBase64 calls that ended, in the order they ended
    syncLocals,  \* the handler's const model and const size
    syncCalls,   \* the generation requests sent to the backend, in order
    now,         \* fetchWithTimeout: the time, in ticks
    fetchCalls   \* the calls of fetchWithTimeout: the locals of each

routerVars == <<apiKey, provider, routingLog>>

extractVars == <<messages, extracted>>

requestVars ==
    <<pathname, authHeader, requestBody, invoked, outbound, outcome, response,
      backendData, imageContent, responseBody>>

pollVars ==
    <<pollingAttempts, sleeps, pollRequests, statusPending, httpErrors, lastAnswer,
      result, logEvents, taskId, checkData, returned>>

hfVars ==
    <<pool, hfIndex, hfCalls, lastError, hfResult, hfLog, timer, sseText, sseOutcome>>

syncVars ==
    <<syncHandler, syncImages, syncLog, syncResult, syncBody, syncPrompt, downloads,
      syncLocals, syncCalls, now, fetchCalls>>

adapterVars == <<pollVars, hfVars, syncVars>>

vars == <<pc, routerVars, extractVars, requestVars, adapterVars, requests>>

----------------------------------------------------------------------------
(* Characters and string helpers                                           *)

Digits == {"0", "1", "2", "3", "4", "5", "6", "7", "8", "9"}

LowerHex == {"a", "b", "c", "d", "e", "f"}

UpperHex == {"A", "B", "C", "D", "E", "F"}

LowerLetters ==
    {"a", "b", "c", "d", "e", "f", "g", "h", "i", "j", "k", "l", "m",
     "n", "o", "p", "q", "r", "s", "t", "u", "v", "w", "x", "y", "z"}

UpperLetters ==
    {"A", "B", "C", "D", "E", "F", "G", "H", "I", "J", "K", "L", "M",
     "N", "O", "P", "Q", "R", "S", "T", "U", "V", "W", "X", "Y", "Z"}

\* String.prototype.startsWith
StartsWith(s, prefix) ==
    /\ Len(prefix) <= Len(s)
    /\ SubSeq(s, 1, Len(prefix)) = prefix

\* String.prototype.substring(0, n)
Substring0(s, n) == SubSeq(s, 1, IF n < Len(s) THEN n ELSE Len(s))

\* A regular expression of the shape ^ item item ... $ where every item is a
\* character class with a repetition range {min,max}.
RECURSIVE MatchFrom(_, _, _, _)
MatchFrom(regex, ri, s, si) ==
    IF ri > Len(regex)
    THEN si = Len(s) + 1
    ELSE \E n \in regex[ri].min .. regex[ri].max :
            /\ si + n - 1 <= Len(s)
            /\ \A j \in si .. (si + n - 1) : s[j] \in regex[ri].class
            /\ MatchFrom(regex, ri + 1, s, si + n)

\* RegExp.prototype.test for an anchored regular expression
RegexTest(regex, s) == MatchFrom(regex, 1, s, 1)

Item(class, min, max) == [class |-> class, min |-> min, max |-> max]

----------------------------------------------------------------------------
(* detectProvider                                                          *)

HfPrefix == <<"h", "f", "_">>

MsPrefix == <<"m", "s", "-">>

\* /^[0-9a-f]{8}-?[0-9a-f]{4}-?[0-9a-f]{4}-?[0-9a-f]{4}-?[0-9a-f]{12}$/i :
\* the hyphens optional
uuidRegexOptionalHyphen ==
    LET hex == Digits \cup LowerHex \cup UpperHex
    IN  << Item(hex, 8, 8), Item({"-"}, 0, 1), Item(hex, 4, 4),
           Item({"-"}, 0, 1), Item(hex, 4, 4), Item({"-"}, 0, 1),
           Item(hex, 4, 4), Item({"-"}, 0, 1), Item(hex, 12, 12) >>

\* /^[0-9a-f]{8}-[0-9a-f]{4}-[0-9a-f]{4}-[0-9a-f]{4}-[0-9a-f]{12}$/i
uuidRegex ==
    LET hex == Digits \cup LowerHex \cup UpperHex
    IN  << Item(hex, 8, 8), Item({"-"}, 1, 1), Item(hex, 4, 4),
           Item({"-"}, 1, 1), Item(hex, 4, 4), Item({"-"}, 1, 1),
           Item(hex, 4, 4), Item({"-"}, 1, 1), Item(hex, 12, 12) >>

\* /^[a-zA-Z0-9]{30,61}$/ : the upper limit off by one
giteeRegexOffByOne ==
    << Item(LowerLetters \cup UpperLetters \cup Digits, 30, 61) >>

\* /^[a-zA-Z0-9]{30,60}$/
giteeRegex ==
    << Item(LowerLetters \cup UpperLetters \cup Digits, 30, 60) >>

\* The provider detectProvider returns for a credential.
detectProvider(key) ==
    IF key = <<>> THEN "Unknown"
    ELSE IF StartsWith(key, HfPrefix) THEN "HuggingFace"
    ELSE IF StartsWith(key, MsPrefix) THEN "ModelScope"
    ELSE IF RegexTest(uuidRegex, key) THEN "VolcEngine"
    ELSE IF RegexTest(giteeRegex, key) THEN "Gitee"
    ELSE "Unknown"

\* The events detectProvider hands to logProviderRouting: none for the empty
\* credential, otherwise one carrying the provider and apiKey.substring(0, 4).
detectProviderLog(key) ==
    IF key = <<>> THEN <<>>
    ELSE << [provider |-> detectProvider(key), keyPrefix |-> Substring0(key, 4)] >>

\* lines 78-99: the four pattern rules, named by what they test
PatternRules == {"hf_", "ms-", "uuidRegex", "giteeRegex"}

\* lines 79, 84, 90, 96: the condition of a rule
ruleTest(rule, key) ==
    CASE rule = "hf_" -> StartsWith(key, HfPrefix)
      [] rule = "ms-" -> StartsWith(key, MsPrefix)
      [] rule = "uuidRegex" -> RegexTest(uuidRegex, key)
      [] rule = "giteeRegex" -> RegexTest(giteeRegex, key)

\* lines 81, 86, 92, 98: the provider a rule returns
ruleProvider(rule) ==
    CASE rule = "hf_" -> "HuggingFace"
      [] rule = "ms-" -> "ModelScope"
      [] rule = "uuidRegex" -> "VolcEngine"
      [] rule = "giteeRegex" -> "Gitee"

\* lines 78-99: the order the source has the rules in
SourceOrder == <<"hf_", "ms-", "uuidRegex", "giteeRegex">>

\* every order of the four rules
RuleOrders ==
    { order \in [1 .. 4 -> PatternRules] :
        \A rule \in PatternRules : \E n \in 1 .. 4 : order[n] = rule }

\* the rules of lines 78-99 tried from the n-th of order on, the first
\* whose condition holds returning; "Unknown" (line 102) when none does
RECURSIVE firstMatch(_, _, _)
firstMatch(order, n, matching) ==
    IF n > Len(order) THEN "Unknown"
    ELSE IF order[n] \in matching THEN ruleProvider(order[n])
    ELSE firstMatch(order, n + 1, matching)

\* the rules whose condition holds of a credential
matchingRules(key) == { rule \in PatternRules : ruleTest(rule, key) }

\* detectProvider with its four if statements in the given order; the
\* test of line 76 stays first
detectProviderIn(order, key) ==
    IF key = <<>> THEN "Unknown"
    ELSE firstMatch(order, 1, matchingRules(key))

----------------------------------------------------------------------------
(* extractPromptAndImages                                                  *)
(*                                                                         *)
(* A message is [role, content]; a content is [kind, text, items] with     *)
(* kind "string" (text holds it) or "array" (items holds the content       *)
(* items); an item is [type, text, hasUrl, url], hasUrl FALSE when the     *)
(* image_url field or its url is absent.                                   *)

Range(s) == {s[i] : i \in 1 .. Len(s)}

\* the literal lit occurs in s at position pos
IsAt(s, pos, lit) ==
    /\ pos >= 1
    /\ pos + Len(lit) - 1 <= Len(s)
    /\ SubSeq(s, pos, pos + Len(lit) - 1) = lit

BangBracket == <<"!", "[">>

BracketParen == <<"]", "(">>

HttpScheme == <<"h", "t", "t", "p", ":", "/", "/">>

HttpsScheme == <<"h", "t", "t", "p", "s", ":", "/", "/">>

DataImageScheme == <<"d", "a", "t", "a", ":", "i", "m", "a", "g", "e", "/">>

\* what . does not match
LineTerminators == {"\n", "\r"}

\* (?:https?:\/\/|data:image\/) at position r: the position after it, 0 when
\* it does not match there
SchemeEnd(s, r) ==
    IF IsAt(s, r, HttpsScheme) THEN r + Len(HttpsScheme)
    ELSE IF IsAt(s, r, HttpScheme) THEN r + Len(HttpScheme)
    ELSE IF IsAt(s, r, DataImageScheme) THEN r + Len(DataImageScheme)
    ELSE 0

\* [^\)]+ from position e: the position of the first ")" at or after e,
\* Len(s) + 1 when there is none
RECURSIVE RunEnd(_, _)
RunEnd(s, e) ==
    IF e > Len(s) THEN Len(s) + 1
    ELSE IF s[e] = ")" THEN e
    ELSE RunEnd(s, e + 1)

\* \]\(((?:https?:\/\/|data:image\/)[^\)]+)\) matches at position q
TargetAt(s, q) ==
    /\ IsAt(s, q, BracketParen)
    /\ SchemeEnd(s, q + 2) # 0
    /\ RunEnd(s, SchemeEnd(s, q + 2)) > SchemeEnd(s, q + 2)
    /\ RunEnd(s, SchemeEnd(s, q + 2)) <= Len(s)

\* .*? followed by the rest of the pattern, from position q: the first
\* position at which the rest matches, 0 when there is none
RECURSIVE LazyFind(_, _)
LazyFind(s, q) ==
    IF q > Len(s) THEN 0
    ELSE IF TargetAt(s, q) THEN q
    ELSE IF s[q] \in LineTerminators THEN 0
    ELSE LazyFind(s, q + 1)

\* content.matchAll(/!\[.*?\]\(((?:https?:\/\/|data:image\/)[^\)]+)\)/g),
\* the first group of every match, searching from position p
RECURSIVE MatchAllFrom(_, _)
MatchAllFrom(s, p) ==
    IF p > Len(s) THEN <<>>
    ELSE IF IsAt(s, p, BangBracket) /\ LazyFind(s, p + 2) # 0
    THEN LET q == LazyFind(s, p + 2)
             e == SchemeEnd(s, q + 2)
             c == RunEnd(s, e)
         IN  <<SubSeq(s, q + 2, c - 1)>> \o MatchAllFrom(s, c + 1)
    ELSE MatchAllFrom(s, p + 1)

markdownImages(text) == MatchAllFrom(text, 1)

\* the same without the final filter(Boolean)
imageUrlsKeepEmpty(items) ==
    LET isImage(item) == item.type = "image_url"
        urlOf(item) == IF item.hasUrl THEN item.url ELSE <<>>
    IN  [i \in 1 .. Len(SelectSeq(items, isImage)) |->
            urlOf(SelectSeq(items, isImage)[i])]

\* items.filter(type === "image_url").map(image_url?.url || "").filter(Boolean)
imageUrls(items) ==
    LET isImage(item) == item.type = "image_url"
        urlOf(item) == IF item.hasUrl THEN item.url ELSE <<>>
        mapped == [i \in 1 .. Len(SelectSeq(items, isImage)) |->
                      urlOf(SelectSeq(items, isImage)[i])]
        truthy(u) == u # <<>>
    IN  SelectSeq(mapped, truthy)

\* userContent.find(type === "text")?.text || ""
firstText(items) ==
    LET isText(item) == item.type = "text"
        texts == SelectSeq(items, isText)
    IN  IF texts = <<>> THEN <<>> ELSE texts[1].text

\* the loop of lines 111-129: the highest index whose role is "user", 0 when
\* there is none (the code's -1)
RECURSIVE lastUserFrom(_, _)
lastUserFrom(msgs, i) ==
    IF i < 1 THEN 0
    ELSE IF msgs[i].role = "user" THEN i
    ELSE lastUserFrom(msgs, i - 1)

\* a scan that takes the first user message instead of the last
RECURSIVE firstUserFrom(_, _)
firstUserFrom(msgs, i) ==
    IF i > Len(msgs) THEN 0
    ELSE IF msgs[i].role = "user" THEN i
    ELSE firstUserFrom(msgs, i + 1)

firstUserIndex(msgs) == firstUserFrom(msgs, 1)

lastUserIndex(msgs) == lastUserFrom(msgs, Len(msgs))

\* foundInMsg of one message
foundInMsg(msg) ==
    IF msg.content.kind = "string" THEN markdownImages(msg.content.text)
    ELSE IF msg.content.kind = "array" THEN imageUrls(msg.content.items)
    ELSE <<>>

\* a history scan that does not stop at the first message with images
RECURSIVE historicalNoBreak(_, _)
historicalNoBreak(msgs, i) ==
    IF i < 1 THEN <<>>
    ELSE foundInMsg(msgs[i]) \o historicalNoBreak(msgs, i - 1)

\* the loop of lines 135-158, from index i downward: the images of the first
\* message that has any
RECURSIVE historicalFrom(_, _)
historicalFrom(msgs, i) ==
    IF i < 1 THEN <<>>
    ELSE IF Len(foundInMsg(msgs[i])) > 0 THEN foundInMsg(msgs[i])
    ELSE historicalFrom(msgs, i - 1)

\* a merge that appends every historical image
mergeNoDedup(finalImages, hist) == finalImages \o hist

\* the loop of lines 164-168
RECURSIVE mergeImages(_, _)
mergeImages(finalImages, hist) ==
    IF hist = <<>> THEN finalImages
    ELSE mergeImages(IF Head(hist) \in Range(finalImages)
                     THEN finalImages
                     ELSE Append(finalImages, Head(hist)),
                     Tail(hist))

promptOf(msgs) ==
    LET L == lastUserIndex(msgs)
    IN  IF L = 0 THEN <<>>
        ELSE IF msgs[L].content.kind = "string" THEN msgs[L].content.text
        ELSE IF msgs[L].content.kind = "array" THEN firstText(msgs[L].content.items)
        ELSE <<>>

currentImages(msgs) ==
    LET L == lastUserIndex(msgs)
    IN  IF L = 0 THEN <<>>
        ELSE IF msgs[L].content.kind = "array" THEN imageUrls(msgs[L].content.items)
        ELSE <<>>

historicalImages(msgs) ==
    IF lastUserIndex(msgs) = 0 THEN <<>>
    ELSE historicalFrom(msgs, lastUserIndex(msgs) - 1)

extractPromptAndImages(msgs) ==
    [prompt |-> promptOf(msgs),
     images |-> mergeImages(currentImages(msgs), historicalImages(msgs))]

----------------------------------------------------------------------------
(* Transcripts the extractor is exercised with                             *)

MaxMessages == 3

UrlA == HttpScheme \o <<"A">>

UrlB == HttpsScheme \o <<"B">>

UrlC == DataImageScheme \o <<"C">>

FtpUrl == <<"f", "t", "p", ":", "/", "/", "A">>

Md(alt, target) == BangBracket \o alt \o BracketParen \o target \o <<")">>

StringContent(text) == [kind |-> "string", text |-> text, items |-> <<>>]

ArrayContent(items) == [kind |-> "array", text |-> <<>>, items |-> items]

TextItem(text) == [type |-> "text", text |-> text, hasUrl |-> FALSE, url |-> <<>>]

ImageItem(url) == [type |-> "image_url", text |-> <<>>, hasUrl |-> TRUE, url |-> url]

ImageItemNoUrl == [type |-> "image_url", text |-> <<>>, hasUrl |-> FALSE, url |-> <<>>]

Message(role, content) == [role |-> role, content |-> content]

TextHi == <<"h", "i">>

TextDraw == <<"d", "r", "a", "w">>

UserMessages ==
    { Message("user", StringContent(TextHi)),
      Message("user", StringContent(Md(<<"x">>, UrlA))),
      Message("user", ArrayContent(<<TextItem(TextDraw), ImageItem(UrlA), ImageItem(UrlB)>>)),
      Message("user", ArrayContent(<<ImageItem(UrlA), ImageItem(UrlA)>>)),
      Message("user", ArrayContent(<<ImageItem(UrlB), TextItem(<<>>), TextItem(TextHi)>>)),
      Message("user", ArrayContent(<<ImageItemNoUrl, ImageItem(<<>>), ImageItem(UrlA)>>)) }

OtherMessages ==
    { Message("system", StringContent(TextHi)),
      Message("assistant", StringContent(Md(<<"x">>, UrlA))),
      Message("assistant", StringContent(Md(<<>>, UrlB) \o <<" ">> \o Md(<<"y">>, UrlC))),
      Message("assistant", StringContent(Md(<<"x">>, UrlB) \o Md(<<"x">>, UrlB))),
      Message("assistant",
              StringContent(Md(<<"x">>, FtpUrl) \o <<"\n">> \o BangBracket
                                \o BracketParen \o UrlA)),
      Message("assistant",
              StringContent(Md(<<"x">>, FtpUrl) \o Md(<<"y">>, HttpScheme) \o <<" ">>
                                \o Md(<<>>, UrlC))),
      Message("assistant", ArrayContent(<<TextItem(TextDraw), ImageItem(UrlA), ImageItem(UrlB)>>)) }

MessageInputs == UserMessages \cup OtherMessages

RECURSIVE SeqsUpTo(_, _)
SeqsUpTo(S, n) ==
    IF n = 0 THEN {<<>>}
    ELSE SeqsUpTo(S, n - 1)
            \cup { Append(t, m) : t \in SeqsUpTo(S, n - 1), m \in S }

Transcripts == SeqsUpTo(MessageInputs, MaxMessages)

----------------------------------------------------------------------------
(* Credentials the router is exercised with                                *)

MaxKeyLen == 61

\* n characters alternating c1, c2
Fill(n, c1, c2) == [i \in 1 .. n |-> IF i % 2 = 1 THEN c1 ELSE c2]

KeyPrefixes ==
    { <<>>, HfPrefix, MsPrefix, <<"h", "f">>, <<"m", "s", "_">>,
      <<"H", "F", "_">>, <<" ", "h", "f", "_">> }

\* prefix followed by a run of up to MaxKeyLen characters
RunKeys ==
    { p \o Fill(n, c1, c2) :
        p \in KeyPrefixes, n \in 0 .. MaxKeyLen, c1 \in {"a", "Z", "7"},
        c2 \in {"a", "0", "_", "-", "G"} }

UuidGroupings ==
    { <<8, 4, 4, 4, 12>>, <<8, 4, 4, 4, 11>>, <<8, 4, 4, 4, 13>>,
      <<7, 4, 4, 4, 12>>, <<4, 8, 4, 4, 12>>, <<8, 4, 4, 16>>,
      <<8, 4, 4, 4, 6, 6>>, <<32>>, <<36>>, <<12, 12, 12>> }

RECURSIVE Grouped(_, _, _, _)
Grouped(groups, c1, c2, sep) ==
    IF groups = <<>> THEN <<>>
    ELSE Fill(Head(groups), c1, c2)
            \o (IF Len(groups) > 1 THEN <<sep>> ELSE <<>>)
            \o Grouped(Tail(groups), c1, c2, sep)

\* groups of characters joined by a separator, optionally wrapped
UuidLikeKeys ==
    { pre \o Grouped(g, c1, c2, sep) \o suf :
        g \in UuidGroupings, c1 \in {"a", "F", "0", "g"},
        c2 \in {"9", "e", "B", "G", "-"}, sep \in {"-", "_", "a"},
        pre \in {<<>>, <<"x">>, <<"a">>}, suf \in {<<>>, <<"\n">>, <<"0">>} }

KeyInputs == RunKeys \cup UuidLikeKeys

----------------------------------------------------------------------------
(* SpecRouter: detectProvider applied to one credential                    *)

NoResult == [prompt |-> <<>>, images |-> <<>>]

ExtractIdle ==
    /\ messages = <<>>
    /\ extracted = NoResult

NoResponse == [status |-> 0, kind |-> "none", provider |-> "None"]

NoAnswer == [answered |-> FALSE, images |-> <<>>]

RequestIdle ==
    /\ pathname = "/"
    /\ authHeader = [present |-> FALSE, value |-> <<>>]
    /\ requestBody = [kind |-> "ok", messages |-> <<>>, stream |-> FALSE]
    /\ invoked = <<>>
    /\ outbound = 0
    /\ outcome = "none"
    /\ response = NoResponse
    /\ backendData = NoAnswer
    /\ imageContent = <<>>
    /\ responseBody = <<>>

\* no poll has been answered with a JSON body
NoCheckData == [task_status |-> "none", output_images |-> <<>>]

NoReturn == [kind |-> "none", content |-> <<>>, payload |-> NoCheckData]

PollIdle ==
    /\ taskId = "none"
    /\ checkData = NoCheckData
    /\ returned = NoReturn
    /\ pollingAttempts = 0
    /\ sleeps = 0
    /\ pollRequests = 0
    /\ statusPending = 0
    /\ httpErrors = 0
    /\ lastAnswer = "none"
    /\ result = "none"
    /\ logEvents = <<>>

\* let lastError: Error | null = null
NoError == [url |-> 0, kind |-> "null"]

NoHfResult == [kind |-> "none", url |-> 0, value |-> NoError]

\* extractImageUrlFromSSE has not been called
NoImageUrl == [kind |-> "none", url |-> <<>>]

HfIdle ==
    /\ pool = 0
    /\ hfIndex = 0
    /\ hfCalls = <<>>
    /\ lastError = NoError
    /\ hfResult = NoHfResult
    /\ hfLog = <<>>
    /\ timer = "cleared"
    /\ sseText = <<>>
    /\ sseOutcome = NoImageUrl

NoSyncResult == [kind |-> "none", content |-> <<>>]

\* no call of fetchWithTimeout is followed
FetchIdle ==
    /\ now = 0
    /\ fetchCalls = <<>>

\* a request body with no model and no size
NoBody == [model |-> "", size |-> <<>>]

\* the handler has not chosen its model and size yet
NoLocals == [model |-> "", size |-> <<>>]

SyncIdle ==
    /\ syncHandler = "none"
    /\ syncImages = <<>>
    /\ syncLog = <<>>
    /\ syncResult = NoSyncResult
    /\ syncBody = NoBody
    /\ syncPrompt = <<>>
    /\ downloads = <<>>
    /\ syncLocals = NoLocals
    /\ syncCalls = <<>>
    /\ FetchIdle

AdaptersIdle == PollIdle /\ HfIdle /\ SyncIdle /\ requests = <<>>

InitRouter ==
    /\ pc = "ready"
    /\ apiKey \in KeyInputs
    /\ provider = "None"
    /\ routingLog = <<>>
    /\ ExtractIdle
    /\ RequestIdle
    /\ AdaptersIdle

Classify ==
    /\ pc = "ready"
    /\ provider' = detectProvider(apiKey)
    /\ routingLog' = routingLog \o detectProviderLog(apiKey)
    /\ pc' = "classified"
    /\ UNCHANGED <<apiKey, extractVars, requestVars, adapterVars, requests>>

NextRouter == Classify

SpecRouter == InitRouter /\ [][NextRouter]_vars

----------------------------------------------------------------------------
(* SpecExtract: extractPromptAndImages applied to one transcript           *)

RouterIdle ==
    /\ apiKey = <<>>
    /\ provider = "None"
    /\ routingLog = <<>>

InitExtract ==
    /\ pc = "ready"
    /\ messages \in Transcripts
    /\ extracted = NoResult
    /\ RouterIdle
    /\ RequestIdle
    /\ AdaptersIdle

Extract ==
    /\ pc = "ready"
    /\ extracted' = extractPromptAndImages(messages)
    /\ pc' = "extracted"
    /\ UNCHANGED <<messages, routerVars, requestVars, adapterVars, requests>>

NextExtract == Extract

SpecExtract == InitExtract /\ [][NextExtract]_vars

----------------------------------------------------------------------------
(* handleChatCompletions: one request from its arrival to its response     *)

MaxOutbound == 2

BearerPrefix == <<"B", "e", "a", "r", "e", "r", " ">>

WhiteSpace == {" ", "\t", "\n", "\r"}

\* the first position at or after p where lit occurs in s, 0 when none
RECURSIVE IndexFrom(_, _, _)
IndexFrom(s, lit, p) ==
    IF p + Len(lit) - 1 > Len(s) THEN 0
    ELSE IF IsAt(s, p, lit) THEN p
    ELSE IndexFrom(s, lit, p + 1)

\* String.prototype.replace(lit, ""): the first occurrence removed
RemoveFirst(s, lit) ==
    LET i == IndexFrom(s, lit, 1)
    IN  IF i = 0 THEN s
        ELSE SubSeq(s, 1, i - 1) \o SubSeq(s, i + Len(lit), Len(s))

RECURSIVE TrimStart(_)
TrimStart(s) ==
    IF s # <<>> /\ Head(s) \in WhiteSpace THEN TrimStart(Tail(s)) ELSE s

RECURSIVE TrimEnd(_)
TrimEnd(s) ==
    IF s # <<>> /\ s[Len(s)] \in WhiteSpace
    THEN TrimEnd(SubSeq(s, 1, Len(s) - 1))
    ELSE s

\* String.prototype.trim
Trim(s) == TrimEnd(TrimStart(s))

\* authHeader?.replace("Bearer ", "").trim(), the empty string standing for
\* undefined as well: both are falsy at the test that follows
credentialOf(header) ==
    IF header.present THEN Trim(RemoveFirst(header.value, BearerPrefix)) ELSE <<>>

\* if (!apiKey)
authMissing(key) == key = <<>>

\* a test that lets every provider through
providerUnknownNever(p) == FALSE

\* if (provider === "Unknown")
providerUnknown(p) == p = "Unknown"

\* a switch whose Gitee case calls the VolcEngine handler
adapterForSwapped(p) ==
    CASE p = "VolcEngine" -> "handleVolcEngine"
      [] p = "Gitee" -> "handleVolcEngine"
      [] p = "ModelScope" -> "handleModelScope"
      [] p = "HuggingFace" -> "handleHuggingFace"
      [] OTHER -> "none"

\* switch (provider): the handler called, "none" when no case matches
adapterFor(p) ==
    CASE p = "VolcEngine" -> "handleVolcEngine"
      [] p = "Gitee" -> "handleGitee"
      [] p = "ModelScope" -> "handleModelScope"
      [] p = "HuggingFace" -> "handleHuggingFace"
      [] OTHER -> "none"

Responded(status, kind, prov) == [status |-> status, kind |-> kind, provider |-> prov]

MaxImages == 2

GeneratedImageAlt ==
    <<"G", "e", "n", "e", "r", "a", "t", "e", "d", " ", "I", "m", "a", "g", "e">>

Base64Prefix ==
    DataImageScheme \o <<"p", "n", "g", ";", "b", "a", "s", "e", "6", "4", ",">>

\* the failure placeholder, one element per character (U+56FE U+7247 U+751F
\* U+6210 U+5931 U+8D25)
Placeholder == <<"u56FE", "u7247", "u751F", "u6210", "u5931", "u8D25">>

Separator == <<"\n", "\n">>

\* `![Generated Image](${target})`
generatedImage(target) ==
    BangBracket \o GeneratedImageAlt \o BracketParen \o target \o <<")">>

\* a callback that takes the url before the b64_json
entryMarkdownUrlFirst(img) ==
    IF img.url # <<>> THEN generatedImage(img.url)
    ELSE IF img.b64_json # <<>> THEN generatedImage(Base64Prefix \o img.b64_json)
    ELSE <<>>

\* lines 336-344, 464-470, 527-533: one entry of data.data as markdown, the
\* empty string when it has neither a b64_json nor a url
entryMarkdown(img) ==
    IF img.b64_json # <<>> THEN generatedImage(Base64Prefix \o img.b64_json)
    ELSE IF img.url # <<>> THEN generatedImage(img.url)
    ELSE <<>>

\* Array.prototype.filter(Boolean) on strings
filterBoolean(strings) == SelectSeq(strings, LAMBDA str : str # <<>>)

\* Array.prototype.join
RECURSIVE join(_, _)
join(strings, sep) ==
    IF strings = <<>> THEN <<>>
    ELSE IF Len(strings) = 1 THEN strings[1]
    ELSE strings[1] \o sep \o join(Tail(strings), sep)

\* a result with no fallback
orPlaceholderNever(str) == str

\* str || "图片生成失败"
orPlaceholder(str) == IF str = <<>> THEN Placeholder ELSE str

Returns(content) == [kind |-> "returns", content |-> content]

Throws == [kind |-> "throws", content |-> <<>>]

\* lines 325-348: what handleVolcEngine makes of data.data || []
volcEngineResult(data) ==
    Returns(orPlaceholder(join(filterBoolean(
        [n \in 1 .. Len(data) |-> entryMarkdown(data[n])]), Separator)))

\* lines 451-474 and 514-537: what handleGitee makes of data.data || []
giteeResult(data) ==
    IF Len(data) = 0 THEN Throws
    ELSE Returns(orPlaceholder(join(filterBoolean(
            [n \in 1 .. Len(data) |-> entryMarkdown(data[n])]), Separator)))

\* lines 627-642: what handleModelScope makes of checkData.output_images || [],
\* the list of strings held in the url fields
modelScopeResult(data) ==
    Returns(orPlaceholder(join(
        [n \in 1 .. Len(data) |-> generatedImage(data[n].url)], Separator)))

\* lines 777-792: what handleHuggingFace makes of data[0].url of the complete
\* event, every URL of the pool answering alike
huggingFaceResult(data) ==
    IF Len(data) = 0 \/ data[1].url = <<>> THEN Throws
    ELSE Returns(generatedImage(data[1].url))

\* the result of the handler for a successful backend answer
adapterResult(p, data) ==
    CASE p = "VolcEngine" -> volcEngineResult(data)
      [] p = "Gitee" -> giteeResult(data)
      [] p = "ModelScope" -> modelScopeResult(data)
      [] p = "HuggingFace" -> huggingFaceResult(data)
      [] OTHER -> Returns(<<>>)

ImageEntry(b64, url) == [b64_json |-> b64, url |-> url]

ImageEntries ==
    { ImageEntry(<<"Q">>, <<>>), ImageEntry(<<>>, UrlA), ImageEntry(<<>>, <<>>),
      ImageEntry(<<"R">>, UrlB) }

ImageLists == SeqsUpTo(ImageEntries, MaxImages)

\* one part of a response body
BodyPart(type, hasContent, content, finish, prov) ==
    [type |-> type, hasContent |-> hasContent, content |-> content,
     finish_reason |-> finish, provider |-> prov]

\* the JSON bodies of lines 855, 864, 876 and 886
plainBody(kind) == << BodyPart(kind, FALSE, <<>>, "none", "None") >>

\* an envelope that names no provider
errorBodyAnonymous(prov) == << BodyPart("server_error", FALSE, <<>>, "none", "Unknown") >>

\* lines 1000-1002: {error: {message, type: "server_error", provider}}
errorBody(prov) == << BodyPart("server_error", FALSE, <<>>, "none", prov) >>

\* lines 927-953: the content chunk, the end chunk, the terminal marker
streamBody(content) ==
    << BodyPart("chat.completion.chunk", TRUE, content, "null", "None"),
       BodyPart("chat.completion.chunk", FALSE, <<>>, "stop", "None"),
       BodyPart("[DONE]", FALSE, <<>>, "none", "None") >>

\* lines 970-981
completionBody(content) ==
    << BodyPart("chat.completion", TRUE, content, "stop", "None") >>

\* lines 847-892: the path checks, the credential and its classification
Authenticate ==
    /\ pc = "received"
    /\ UNCHANGED <<extractVars, pathname, authHeader, requestBody, invoked, outbound, outcome>>
    /\ UNCHANGED <<backendData, imageContent, adapterVars, requests>>
    /\ IF pathname \in {"/", "/health"}
       THEN /\ response' = Responded(200, "health", "None")
            /\ responseBody' = plainBody("health")
            /\ pc' = "done"
            /\ UNCHANGED routerVars
       ELSE IF pathname # "/v1/chat/completions"
       THEN /\ response' = Responded(404, "notFound", "None")
            /\ responseBody' = plainBody("notFound")
            /\ pc' = "done"
            /\ UNCHANGED routerVars
       ELSE /\ apiKey' = credentialOf(authHeader)
            /\ IF authMissing(apiKey')
               THEN /\ response' = Responded(401, "missingAuth", "None")
                    /\ responseBody' = plainBody("missingAuth")
                    /\ pc' = "done"
                    /\ UNCHANGED <<provider, routingLog>>
               ELSE /\ provider' = detectProvider(apiKey')
                    /\ routingLog' = routingLog \o detectProviderLog(apiKey')
                    /\ IF providerUnknown(provider')
                       THEN /\ response' = Responded(401, "invalidKey", "None")
                            /\ responseBody' = plainBody("invalidKey")
                            /\ pc' = "done"
                       ELSE /\ pc' = "routed"
                            /\ UNCHANGED <<response, responseBody>>

\* lines 894-917: the body is read, the prompt and images extracted and the
\* provider's handler called; an exception on the way goes to the catch
\* block of lines 993-1006
ParseAndDispatch ==
    /\ pc = "routed"
    /\ UNCHANGED <<routerVars, pathname, authHeader, requestBody, outbound, adapterVars, requests>>
    /\ UNCHANGED <<backendData, imageContent>>
    /\ IF requestBody.kind # "ok"
       THEN /\ response' = Responded(500, "error", provider)
            /\ responseBody' = errorBody(provider)
            /\ pc' = "done"
            /\ UNCHANGED <<extractVars, invoked, outcome>>
       ELSE /\ messages' = requestBody.messages
            /\ extracted' = extractPromptAndImages(requestBody.messages)
            /\ UNCHANGED <<response, responseBody>>
            /\ IF adapterFor(provider) = "none"
               THEN /\ outcome' = "returned"
                    /\ pc' = "respond"
                    /\ UNCHANGED invoked
               ELSE /\ invoked' = Append(invoked, adapterFor(provider))
                    /\ pc' = "adapter"
                    /\ UNCHANGED outcome

\* the handler awaits one backend call (fetchWithTimeout)
AdapterFetch ==
    /\ pc = "adapter"
    /\ outbound < MaxOutbound
    /\ outbound' = outbound + 1
    /\ UNCHANGED <<pc, routerVars, extractVars, pathname, authHeader, requestBody,
                   invoked, outcome, response, adapterVars, requests>>
    /\ UNCHANGED <<backendData, imageContent, responseBody>>

\* the backend's last answer is a success carrying an image list: the handler
\* returns its image content, or throws on a list it does not accept
AdapterReturn ==
    /\ pc = "adapter"
    /\ outbound >= 1
    /\ \E data \in ImageLists :
          /\ backendData' = [answered |-> TRUE, images |-> data]
          /\ IF adapterResult(provider, data).kind = "returns"
             THEN /\ imageContent' = adapterResult(provider, data).content
                  /\ outcome' = "returned"
             ELSE /\ outcome' = "threw"
                  /\ UNCHANGED imageContent
    /\ pc' = "respond"
    /\ UNCHANGED <<routerVars, extractVars, pathname, authHeader, requestBody,
                   invoked, outbound, response, responseBody, adapterVars, requests>>

\* the handler throws: a backend call was rejected or answered with a failure
AdapterThrow ==
    /\ pc = "adapter"
    /\ outcome' = "threw"
    /\ pc' = "respond"
    /\ UNCHANGED <<routerVars, extractVars, pathname, authHeader, requestBody,
                   invoked, outbound, response, adapterVars, requests>>
    /\ UNCHANGED <<backendData, imageContent, responseBody>>

\* lines 919-1006: the chat completion, streamed or not, or the error
\* envelope of the catch block
Respond ==
    /\ pc = "respond"
    /\ response' =
          IF outcome = "returned"
          THEN Responded(200, IF requestBody.stream THEN "stream" ELSE "completion", "None")
          ELSE Responded(500, "error", provider)
    /\ responseBody' =
          IF outcome # "returned" THEN errorBody(provider)
          ELSE IF requestBody.stream THEN streamBody(imageContent)
          ELSE completionBody(imageContent)
    /\ pc' = "done"
    /\ UNCHANGED <<routerVars, extractVars, pathname, authHeader, requestBody,
                   invoked, outbound, outcome, adapterVars, requests>>
    /\ UNCHANGED <<backendData, imageContent>>

HfKey == HfPrefix \o <<"a", "b", "c">>

MsKey == MsPrefix \o <<"a", "b", "c">>

UuidKey == Grouped(<<8, 4, 4, 4, 12>>, "a", "9", "-")

GiteeKey == Fill(30, "a", "0")

OddKey == <<"x", "y", "z">>

HeaderValues ==
    { <<>>, BearerPrefix, BearerPrefix \o <<" ", " ">>,
      BearerPrefix \o HfKey, BearerPrefix \o MsKey, BearerPrefix \o UuidKey,
      BearerPrefix \o GiteeKey, BearerPrefix \o OddKey, HfKey,
      <<"b", "e", "a", "r", "e", "r", " ">> \o HfKey,
      <<" ">> \o BearerPrefix \o <<" ">> \o GiteeKey \o <<" ">> }

HeaderInputs ==
    { [present |-> FALSE, value |-> <<>>] }
        \cup { [present |-> TRUE, value |-> v] : v \in HeaderValues }

PathInputs == {"/", "/health", "/v1/chat/completions", "/v1/models"}

RequestTranscripts ==
    { <<>>,
      << Message("user", StringContent(TextHi)) >>,
      << Message("assistant", StringContent(Md(<<"x">>, UrlA))),
         Message("user", ArrayContent(<<TextItem(TextDraw), ImageItem(UrlA), ImageItem(UrlB)>>)) >> }

\* kind "invalidJson": req.json() rejects; kind "nullEntry": the body parses
\* and messages holds a null, on which extractPromptAndImages throws
BodyInputs ==
    { [kind |-> k, messages |-> <<>>, stream |-> FALSE] : k \in {"invalidJson", "nullEntry"} }
        \cup { [kind |-> "ok", messages |-> m, stream |-> st] :
                 m \in RequestTranscripts, st \in BOOLEAN }

Init ==
    /\ pc = "received"
    /\ pathname \in PathInputs
    /\ authHeader \in HeaderInputs
    /\ requestBody \in BodyInputs
    /\ invoked = <<>>
    /\ outbound = 0
    /\ outcome = "none"
    /\ response = NoResponse
    /\ backendData = NoAnswer
    /\ imageContent = <<>>
    /\ responseBody = <<>>
    /\ RouterIdle
    /\ ExtractIdle
    /\ AdaptersIdle

Next ==
    \/ Authenticate
    \/ ParseAndDispatch
    \/ AdapterFetch
    \/ AdapterReturn
    \/ AdapterThrow
    \/ Respond

Spec == Init /\ [][Next]_vars

----------------------------------------------------------------------------
(* What the handlers make of reqBody.model and reqBody.size: config.ts and *)
(* the lines of each handler that choose the model and the size.  A model  *)
(* is a string and a size a sequence of characters; the empty one stands   *)
(* for an absent field too, both being falsy where the code tests them.    *)

Size2K == <<"2", "K">>

Size1024 == <<"1", "0", "2", "4", "x", "1", "0", "2", "4">>

Size2048 == <<"2", "0", "4", "8", "x", "2", "0", "4", "8">>

VolcEngineConfig ==
    [apiUrl |-> "https://ark.cn-beijing.volces.com/api/v3/images/generations",
     defaultModel |-> "doubao-seedream-4-5-251128",
     defaultSize |-> Size2K,
     defaultEditSize |-> Size2K,
     supportedModels |-> <<"doubao-seedream-4-5-251128", "doubao-seedream-4-0-250828">>]

GiteeConfig ==
    [apiUrl |-> "https://ai.gitee.com/v1/images/generations",
     editApiUrl |-> "https://ai.gitee.com/v1/images/edits",
     defaultModel |-> "z-image-turbo",
     defaultEditModel |-> "Qwen-Image-Edit",
     defaultSize |-> Size2048,
     defaultEditSize |-> Size1024,
     supportedModels |-> <<"z-image-turbo">>,
     editModels |-> <<"Qwen-Image-Edit", "HiDream-E1-Full", "FLUX.1-dev", "HelloMeme",
                      "Kolors", "OmniConsistency">>]

ModelScopeConfig ==
    [apiUrl |-> "https://api-inference.modelscope.cn/v1",
     defaultModel |-> "Tongyi-MAI/Z-Image-Turbo",
     defaultSize |-> Size2048,
     defaultEditSize |-> Size2048,
     supportedModels |-> <<"Tongyi-MAI/Z-Image-Turbo">>]

HuggingFaceConfig ==
    [defaultModel |-> "Qwen-Image-Edit-2511",
     defaultSize |-> Size2048,
     defaultEditSize |-> Size2048,
     supportedModels |-> <<"z-image-turbo", "Qwen-Image-Edit-2511">>]

\* Array.prototype.includes
includes(list, x) == \E n \in 1 .. Len(list) : list[n] = x

\* a choice of model that takes whatever the caller names
resolveModelUnchecked(requested, whitelist, default) ==
    IF requested # "" THEN requested ELSE default

\* reqBody.model && whitelist.includes(reqBody.model) ? reqBody.model : default
resolveModel(requested, whitelist, default) ==
    IF requested # "" /\ includes(whitelist, requested) THEN requested ELSE default

\* lines 282-284, 392-394, 478-480, 567-569, 695-697: const model
modelOf(handler, images, reqBody) ==
    CASE handler = "handleVolcEngine" ->
            resolveModel(reqBody.model, VolcEngineConfig.supportedModels,
                         VolcEngineConfig.defaultModel)
      [] handler = "handleGitee" /\ Len(images) > 0 ->
            resolveModel(reqBody.model, GiteeConfig.editModels, GiteeConfig.editModels[1])
      [] handler = "handleGitee" /\ Len(images) = 0 ->
            resolveModel(reqBody.model, GiteeConfig.supportedModels,
                         GiteeConfig.defaultModel)
      [] handler = "handleModelScope" ->
            resolveModel(reqBody.model, ModelScopeConfig.supportedModels,
                         ModelScopeConfig.defaultModel)
      [] handler = "handleHuggingFace" ->
            resolveModel(reqBody.model, HuggingFaceConfig.supportedModels,
                         HuggingFaceConfig.defaultModel)

\* reqBody.size || default
orDefaultSize(size, default) == IF size # <<>> THEN size ELSE default

\* lines 287, 387, 572, 700: const size
sizeOf(handler, images, reqBody) ==
    CASE handler = "handleVolcEngine" ->
            orDefaultSize(reqBody.size,
                IF Len(images) > 0 THEN VolcEngineConfig.defaultEditSize
                ELSE VolcEngineConfig.defaultSize)
      [] handler = "handleGitee" ->
            orDefaultSize(reqBody.size,
                IF Len(images) > 0 THEN GiteeConfig.defaultEditSize
                ELSE GiteeConfig.defaultSize)
      [] handler = "handleModelScope" ->
            orDefaultSize(reqBody.size, ModelScopeConfig.defaultSize)
      [] handler = "handleHuggingFace" ->
            orDefaultSize(reqBody.size, HuggingFaceConfig.defaultSize)

\* String.prototype.split on a one-character separator
RECURSIVE splitFrom(_, _, _, _)
splitFrom(s, sep, p, part) ==
    IF p > Len(s) THEN <<part>>
    ELSE IF s[p] = sep THEN <<part>> \o splitFrom(s, sep, p + 1, <<>>)
    ELSE splitFrom(s, sep, p + 1, Append(part, s[p]))

split(s, sep) == splitFrom(s, sep, 1, <<>>)

DigitString == <<"0", "1", "2", "3", "4", "5", "6", "7", "8", "9">>

DigitValue(c) == CHOOSE d \in 0 .. 9 : DigitString[d + 1] = c

RECURSIVE DecimalValue(_)
DecimalValue(s) ==
    IF s = <<>> THEN 0
    ELSE 10 * DecimalValue(SubSeq(s, 1, Len(s) - 1)) + DigitValue(s[Len(s)])

JsNumber(n) == [kind |-> "number", n |-> n]

NaN == [kind |-> "NaN", n |-> 0]

JsUndefined == [kind |-> "undefined", n |-> 0]

\* Number(str) on the strings of the model, which hold no sign, point or
\* exponent: white space is trimmed, the empty string is 0, a run of digits
\* its decimal value, anything else NaN
Number(str) ==
    LET t == Trim(str)
    IN  IF t = <<>> THEN JsNumber(0)
        ELSE IF \A n \in 1 .. Len(t) : t[n] \in Digits
        THEN JsNumber(DecimalValue(t))
        ELSE NaN

\* const [width, height] = size.split('x').map(Number)
dimension(size, n) ==
    IF n <= Len(split(size, "x")) THEN Number(split(size, "x")[n]) ELSE JsUndefined

\* value || 1024
or1024(value) == IF value.kind = "number" /\ value.n # 0 THEN value.n ELSE 1024

\* prompt || "A beautiful scenery"
Scenery == <<"s", "c", "e", "n", "e", "r", "y">>

orScenery(prompt) == IF prompt # <<>> THEN prompt ELSE Scenery

steps == 9

\* a submission that carries the number of input images in place of the flag
hfRequestBodyWithImages(reqBody, prompt, images, seed) ==
    << orScenery(prompt),
       or1024(dimension(sizeOf("handleHuggingFace", images, reqBody), 2)),
       or1024(dimension(sizeOf("handleHuggingFace", images, reqBody), 1)),
       steps, seed, Len(images) > 0 >>

\* lines 700-723: data of the submission,
\* [prompt || "A beautiful scenery", height || 1024, width || 1024, steps, seed, false]
hfRequestBody(reqBody, prompt, images, seed) ==
    << orScenery(prompt),
       or1024(dimension(sizeOf("handleHuggingFace", images, reqBody), 2)),
       or1024(dimension(sizeOf("handleHuggingFace", images, reqBody), 1)),
       steps, seed, FALSE >>

----------------------------------------------------------------------------
(* handleModelScope: one invocation, the backend's answers chosen freely   *)

maxAttempts == 60

\* a loop test that admits one iteration too many
loopContinuesInclusive(n) == n <= maxAttempts

\* for (let i = 0; i < maxAttempts; i++): pollingAttempts is incremented
\* once in every iteration, as i is, so it holds the value of i at the test
loopContinues(n) == n < maxAttempts

\* what the backend does with the submit request: a success response, a
\* non-success response, or no response (fetch rejects, or the body is no JSON)
SubmitAnswers == {"ok", "httpError", "throws"}

\* what the backend does with one poll request: a non-success response, a
\* success response with a task_status, or no usable response ("throws": the
\* fetch rejects on a transport error or on the abort of its timeout, or the
\* body is no JSON; the loop has no try block, so the rejection leaves
\* handleModelScope)
PollAnswers == {"httpError", "PENDING", "SUCCEED", "FAILED", "throws"}

\* a poll's JSON body: checkData.task_status and checkData.output_images
CheckData(status, images) == [task_status |-> status, output_images |-> images]

\* the lists of URLs a poll may report in output_images
OutputImages == {<<>>, <<UrlA>>, <<UrlA, UrlB>>, <<UrlB, UrlA>>}

\* line 628: checkData.output_images || []
outputImages(data) == data.output_images

\* line 631: imageUrls.map((url) => ({ url }))
imageData(urls) == [n \in 1 .. Len(urls) |-> ImageEntry(<<>>, urls[n])]

\* a status test that takes FAILED for a status still in progress
statusBranchFailedContinues(status) ==
    IF status = "SUCCEED" THEN "return" ELSE "continue"

\* lines 627, 643, 649: the branch taken on checkData.task_status
statusBranch(status) ==
    IF status = "SUCCEED" THEN "return"
    ELSE IF status = "FAILED" THEN "throw"
    ELSE "continue"

\* return result
Returned(content) == [kind |-> "returns", content |-> content, payload |-> NoCheckData]

\* throw err: the message and, for a failed task, JSON.stringify(checkData)
Threw(message, payload) == [kind |-> "throws", content |-> message, payload |-> payload]

InitModelScope ==
    /\ pc = "start"
    /\ PollIdle
    /\ HfIdle
    /\ SyncIdle
    /\ requests = <<>>
    /\ RouterIdle
    /\ ExtractIdle
    /\ RequestIdle

\* lines 560-602: the submit request and what follows from its answer
Submit ==
    /\ pc = "start"
    /\ \E answer \in SubmitAnswers :
          /\ lastAnswer' = "submit:" \o answer
          /\ CASE answer = "ok" ->
                    /\ logEvents' = logEvents \o <<"apiCallStart">>
                    /\ result' = result
                    /\ pc' = "loop"
               [] answer = "httpError" ->
                    /\ logEvents' = logEvents
                          \o <<"apiCallStart", "imageGenerationFailed", "apiCallEnd:false">>
                    /\ result' = "ModelScope Submit Error"
                    /\ pc' = "done"
               [] answer = "throws" ->
                    /\ logEvents' = logEvents \o <<"apiCallStart">>
                    /\ result' = "exception"
                    /\ pc' = "done"
          /\ taskId' = IF answer = "ok" THEN "task" ELSE taskId
          /\ returned' = CASE answer = "ok" -> returned
                            [] answer = "httpError" -> Threw("ModelScope Submit Error", NoCheckData)
                            [] answer = "throws" -> Threw("exception", NoCheckData)
    /\ UNCHANGED <<pollingAttempts, sleeps, pollRequests, statusPending, httpErrors,
                   checkData>>
    /\ UNCHANGED <<routerVars, extractVars, requestVars, hfVars, syncVars, requests>>

\* lines 607-609: the loop test passes, the 5-second sleep, the counter
Sleep ==
    /\ pc = "loop"
    /\ loopContinues(pollingAttempts)
    /\ sleeps' = sleeps + 1
    /\ pollingAttempts' = pollingAttempts + 1
    /\ pc' = "poll"
    /\ UNCHANGED <<pollRequests, statusPending, httpErrors, lastAnswer, result, logEvents,
                   taskId, checkData, returned>>
    /\ UNCHANGED <<routerVars, extractVars, requestVars, hfVars, syncVars, requests>>

\* lines 611-651: one poll request and what follows from its answer
Poll ==
    /\ pc = "poll"
    /\ pollRequests' = pollRequests + 1
    /\ \E answer \in PollAnswers, images \in OutputImages :
          /\ lastAnswer' = answer
          /\ CASE answer = "httpError" ->
                    /\ httpErrors' = httpErrors + 1
                    /\ pc' = "loop"
                    /\ UNCHANGED <<statusPending, result, logEvents, checkData, returned>>
               [] answer = "throws" ->
                    /\ result' = "exception"
                    /\ returned' = Threw("exception", NoCheckData)
                    /\ pc' = "done"
                    /\ UNCHANGED <<statusPending, httpErrors, logEvents, checkData>>
               [] OTHER ->
                    LET data == CheckData(answer, images) IN
                    /\ checkData' = data
                    /\ CASE statusBranch(data.task_status) = "return" ->
                              /\ result' = "success"
                              /\ returned' =
                                    Returned(modelScopeResult(imageData(outputImages(data))).content)
                              /\ logEvents' = logEvents \o <<"apiCallEnd:true">>
                              /\ pc' = "done"
                              /\ UNCHANGED <<statusPending, httpErrors>>
                         [] statusBranch(data.task_status) = "throw" ->
                              /\ result' = "ModelScope Task Failed"
                              /\ returned' = Threw("ModelScope Task Failed", data)
                              /\ logEvents' = logEvents
                                    \o <<"imageGenerationFailed", "apiCallEnd:false">>
                              /\ pc' = "done"
                              /\ UNCHANGED <<statusPending, httpErrors>>
                         [] OTHER ->
                              /\ statusPending' = statusPending + 1
                              /\ pc' = "loop"
                              /\ UNCHANGED <<httpErrors, result, logEvents, returned>>
    /\ UNCHANGED <<pollingAttempts, sleeps, taskId>>
    /\ UNCHANGED <<routerVars, extractVars, requestVars, hfVars, syncVars, requests>>

\* lines 654-658: the loop test fails
TimeoutExit ==
    /\ pc = "loop"
    /\ ~loopContinues(pollingAttempts)
    /\ result' = "ModelScope Task Timeout"
    /\ returned' = Threw("ModelScope Task Timeout", NoCheckData)
    /\ logEvents' = logEvents \o <<"imageGenerationFailed", "apiCallEnd:false">>
    /\ pc' = "done"
    /\ UNCHANGED <<pollingAttempts, sleeps, pollRequests, statusPending, httpErrors,
                   lastAnswer, taskId, checkData>>
    /\ UNCHANGED <<routerVars, extractVars, requestVars, hfVars, syncVars, requests>>

NextModelScope ==
    \/ Submit
    \/ Sleep
    \/ Poll
    \/ TimeoutExit

SpecModelScope == InitModelScope /\ [][NextModelScope]_vars

----------------------------------------------------------------------------
(* handleHuggingFace: one invocation over a pool of URLs                   *)

MaxPool == 4

EventPrefix == <<"e", "v", "e", "n", "t", ":">>

DataPrefix == <<"d", "a", "t", "a", ":">>

CompleteWord == <<"c", "o", "m", "p", "l", "e", "t", "e">>

ErrorWord == <<"e", "r", "r", "o", "r">>

HeartbeatWord == <<"h", "e", "a", "r", "t", "b", "e", "a", "t">>

\* The JSON text of a data line is one symbol: "U" and "V" arrays whose
\* first element has a url (UrlA and UrlB), "E" an array whose first element
\* has none, "N" the text null, "X" a text JSON.parse rejects.
\* data && data[0] && data[0].url, after JSON.parse (a rejected text is
\* caught at line 837 and the loop goes on)
hasImageUrl(jsonData) == jsonData \in {<<"U">>, <<"V">>}

\* line 835: data[0].url
firstUrl(jsonData) == IF jsonData = <<"U">> THEN UrlA ELSE UrlB

\* a flag that any event line sets
completeAfterAny(eventType) == TRUE

\* lines 822-828: isCompleteEvent after an event line that is no error
completeAfter(eventType) == eventType = CompleteWord

\* return data[0].url, return null, throw new Error(...)
SseUrl(url) == [kind |-> "url", url |-> url]

SseNull == [kind |-> "null", url |-> <<>>]

SseThrows == [kind |-> "throws", url |-> <<>>]

\* lines 819-842: the scan of the lines from position k on ("complete" and
\* "error" being different words, the order of the two tests of lines 822
\* and 824 does not matter)
RECURSIVE sseFrom(_, _, _)
sseFrom(lines, k, isCompleteEvent) ==
    IF k > Len(lines) THEN SseNull
    ELSE LET line == lines[k]
         IN  IF StartsWith(line, EventPrefix)
             THEN LET eventType == Trim(SubSeq(line, 7, Len(line)))
                  IN  IF eventType = ErrorWord THEN SseThrows
                      ELSE sseFrom(lines, k + 1, completeAfter(eventType))
             ELSE IF StartsWith(line, DataPrefix) /\ isCompleteEvent
             THEN LET jsonData == Trim(SubSeq(line, 6, Len(line)))
                  IN  IF hasImageUrl(jsonData)
                      THEN SseUrl(firstUrl(jsonData))
                      ELSE sseFrom(lines, k + 1, isCompleteEvent)
             ELSE sseFrom(lines, k + 1, isCompleteEvent)

\* extractImageUrlFromSSE on the lines of the stream: the image URL it
\* returns, null, or the error thrown on an error event
extractImageUrlFromSSE(lines) == sseFrom(lines, 1, FALSE)

EventLine(word) == EventPrefix \o <<" ">> \o word

DataLine(json) == DataPrefix \o <<" ">> \o <<json>>

SseInputs ==
    { <<>>,
      << EventLine(CompleteWord), DataLine("U") >>,
      << EventPrefix \o CompleteWord, DataPrefix \o <<"U">> >>,
      << EventLine(ErrorWord) >>,
      << EventLine(HeartbeatWord), DataLine("U") >>,
      << EventLine(CompleteWord), DataLine("X") >>,
      << EventLine(CompleteWord), DataLine("N"), DataLine("E") >>,
      << EventLine(CompleteWord), DataLine("U"), EventLine(ErrorWord) >>,
      << EventLine(CompleteWord), EventLine(HeartbeatWord), DataLine("U") >>,
      << EventLine(HeartbeatWord), DataLine("N"), EventLine(CompleteWord),
         DataLine("E"), DataLine("U") >>,
      << <<" ">> \o EventLine(ErrorWord), EventLine(CompleteWord), DataLine("U") >> }

\* what one URL does with the submission: a success response with an
\* event_id, a non-success response, or no usable response
QueueAnswers == {"ok", "httpError", "throws"}

\* what one URL does with the result request: a non-success response, no
\* usable response, or a success response with an SSE text
ResultAnswers ==
    { [kind |-> k, lines |-> <<>>] : k \in {"httpError", "throws"} }
        \cup { [kind |-> "sse", lines |-> l] : l \in SseInputs }

HfError(url, kind) == [url |-> url, kind |-> kind]

\* a catch block that keeps the first error
recordErrorKeepFirst(previous, err) == IF previous = NoError THEN err ELSE previous

\* line 795: lastError = err
recordError(previous, err) == err

\* a loop that steps over every other URL
nextUrlSkipping(n) == n + 2

\* line 741: i++
nextUrl(n) == n + 1

\* line 807: lastError || new Error(...), the generic message of all URLs
\* having failed
surfacedError(err) == IF err = NoError THEN HfError(0, "all URLs failed") ELSE err

InitHuggingFace ==
    /\ pc = "start"
    /\ pool \in 0 .. MaxPool
    /\ hfIndex = 0
    /\ hfCalls = <<>>
    /\ lastError = NoError
    /\ hfResult = NoHfResult
    /\ hfLog = <<>>
    /\ timer = "cleared"
    /\ sseText = <<>>
    /\ sseOutcome = NoImageUrl
    /\ requests = <<>>
    /\ SyncIdle
    /\ PollIdle
    /\ RouterIdle
    /\ ExtractIdle
    /\ RequestIdle

\* lines 683-741: the call-start event, the empty-pool exit, the loop entered
HfStart ==
    /\ pc = "start"
    /\ IF pool = 0
       THEN /\ hfResult' = [kind |-> "error", url |-> 0,
                            value |-> HfError(0, "no API URL configured")]
            /\ hfLog' = hfLog \o <<"apiCallStart", "imageGenerationFailed", "apiCallEnd:false">>
            /\ pc' = "done"
            /\ UNCHANGED hfIndex
       ELSE /\ hfLog' = hfLog \o <<"apiCallStart">>
            /\ hfIndex' = 1
            /\ pc' = "queue"
            /\ UNCHANGED hfResult
    /\ UNCHANGED <<pool, hfCalls, lastError, timer, sseText, sseOutcome>>
    /\ UNCHANGED <<routerVars, extractVars, requestVars, pollVars, syncVars, requests>>

\* lines 794-811: the catch block for the URL at hfIndex, then either the
\* next iteration or, after the last URL, the failure exit
HfCatch(err) ==
    /\ lastError' = recordError(lastError, err)
    /\ hfIndex' = nextUrl(hfIndex)
    /\ IF hfIndex' <= pool
       THEN /\ pc' = "queue"
            /\ UNCHANGED <<hfResult, hfLog>>
       ELSE /\ hfResult' = [kind |-> "error", url |-> 0, value |-> surfacedError(lastError')]
            /\ hfLog' = hfLog \o <<"imageGenerationFailed", "apiCallEnd:false">>
            /\ pc' = "done"

\* lines 774-792: the SSE text of the result response is parsed; an image
\* URL ends the invocation, null or an error goes to the catch block
HfParse(lines) ==
    LET imageUrl == extractImageUrlFromSSE(lines)
    IN  /\ sseText' = lines
        /\ sseOutcome' = imageUrl
        /\ CASE imageUrl.kind = "throws" ->
                    HfCatch(HfError(hfIndex, "SSE error event"))
             [] imageUrl.kind = "null" ->
                    HfCatch(HfError(hfIndex, "no image URL extracted"))
             [] imageUrl.kind = "url" ->
                    /\ hfResult' = [kind |-> "image", url |-> hfIndex,
                                    value |-> NoError]
                    /\ hfLog' = hfLog \o <<"apiCallEnd:true">>
                    /\ pc' = "done"
                    /\ UNCHANGED <<hfIndex, lastError>>

\* lines 749-761: the submission to the URL at hfIndex
HfQueue ==
    /\ pc = "queue"
    /\ hfCalls' = Append(hfCalls, [url |-> hfIndex, step |-> "queue"])
    /\ \E answer \in QueueAnswers :
          CASE answer = "ok" ->
                    /\ pc' = "result"
                    /\ UNCHANGED <<hfIndex, lastError, hfResult, hfLog>>
            [] answer = "httpError" -> HfCatch(HfError(hfIndex, "API Error"))
            [] answer = "throws" -> HfCatch(HfError(hfIndex, "rejected"))
    /\ UNCHANGED <<pool, timer, sseText, sseOutcome>>
    /\ UNCHANGED <<routerVars, extractVars, requestVars, pollVars, syncVars, requests>>

\* lines 764-792: the result request to the URL at hfIndex and its SSE text
HfResult ==
    /\ pc = "result"
    /\ hfCalls' = Append(hfCalls, [url |-> hfIndex, step |-> "result"])
    /\ \E answer \in ResultAnswers :
          CASE answer.kind = "httpError" ->
                    /\ HfCatch(HfError(hfIndex, "Result API Error"))
                    /\ UNCHANGED <<sseText, sseOutcome>>
            [] answer.kind = "throws" ->
                    /\ HfCatch(HfError(hfIndex, "rejected"))
                    /\ UNCHANGED <<sseText, sseOutcome>>
            [] answer.kind = "sse" -> HfParse(answer.lines)
    /\ UNCHANGED <<pool, timer>>
    /\ UNCHANGED <<routerVars, extractVars, requestVars, pollVars, syncVars, requests>>

NextHuggingFace ==
    \/ HfStart
    \/ HfQueue
    \/ HfResult

SpecHuggingFace == InitHuggingFace /\ [][NextHuggingFace]_vars

----------------------------------------------------------------------------
(* extractImageUrlFromSSE on every short stream: the submission to the     *)
(* first URL of the pool has been accepted and the result response brings  *)
(* any sequence of at most MaxLines lines.                                  *)

MaxLines == 3

\* the lines a stream is made of: event lines of three types (one without
\* the space after the colon, one with a space before "event:"), data lines
\* with each kind of JSON text, and the empty line
SseLines ==
    { EventLine(CompleteWord), EventPrefix \o CompleteWord, EventLine(ErrorWord),
      EventLine(HeartbeatWord), <<" ">> \o EventLine(ErrorWord),
      DataLine("U"), DataLine("V"), DataLine("E"), DataLine("X"), <<>> }

SseStreams == SeqsUpTo(SseLines, MaxLines)

InitSSE ==
    /\ pc = "result"
    /\ pool \in 1 .. 2
    /\ hfIndex = 1
    /\ hfCalls = <<[url |-> 1, step |-> "queue"]>>
    /\ lastError = NoError
    /\ hfResult = NoHfResult
    /\ hfLog = <<"apiCallStart">>
    /\ timer = "cleared"
    /\ sseText = <<>>
    /\ sseOutcome = NoImageUrl
    /\ requests = <<>>
    /\ SyncIdle
    /\ PollIdle
    /\ RouterIdle
    /\ ExtractIdle
    /\ RequestIdle

\* lines 764-792: the result request answered with a stream
HfStream ==
    /\ pc = "result"
    /\ hfCalls' = Append(hfCalls, [url |-> hfIndex, step |-> "result"])
    /\ \E lines \in SseStreams : HfParse(lines)
    /\ UNCHANGED <<pool, timer>>
    /\ UNCHANGED <<routerVars, extractVars, requestVars, pollVars, syncVars, requests>>

NextSSE == HfStream

SpecSSE == InitSSE /\ [][NextSSE]_vars

----------------------------------------------------------------------------
(* handleHuggingFace with a backend that may stall: every await is a step. *)
(* fetchWithTimeout arms its timer before fetch and clears it in its       *)
(* finally block, when fetch has resolved with the response headers or     *)
(* rejected; the body is read afterwards, by response.json() or            *)
(* response.text(), outside fetchWithTimeout.                               *)

\* lines 187-191: the timer is set and the request sent
StallSend ==
    /\ pc \in {"queue", "result"}
    /\ hfCalls' = Append(hfCalls, [url |-> hfIndex, step |-> pc])
    /\ timer' = "armed"
    /\ pc' = IF pc = "queue" THEN "queueFetch" ELSE "resultFetch"
    /\ UNCHANGED <<pool, hfIndex, lastError, hfResult, hfLog, sseText, sseOutcome>>
    /\ UNCHANGED <<routerVars, extractVars, requestVars, pollVars, syncVars, requests>>

\* lines 191-197: the backend sends its response headers, fetch resolves and
\* the finally block clears the timer
StallHeaders ==
    /\ pc \in {"queueFetch", "resultFetch"}
    /\ timer' = "cleared"
    /\ pc' = IF pc = "queueFetch" THEN "queueBody" ELSE "resultBody"
    /\ UNCHANGED <<pool, hfIndex, hfCalls, lastError, hfResult, hfLog, sseText, sseOutcome>>
    /\ UNCHANGED <<routerVars, extractVars, requestVars, pollVars, syncVars, requests>>

\* line 188: the timer fires before the headers have come, the fetch is
\* aborted and rejects, and the catch block of line 794 takes the error
StallTimerFires ==
    /\ pc \in {"queueFetch", "resultFetch"}
    /\ timer = "armed"
    /\ timer' = "cleared"
    /\ HfCatch(HfError(hfIndex, "aborted"))
    /\ UNCHANGED <<pool, hfCalls, sseText, sseOutcome>>
    /\ UNCHANGED <<routerVars, extractVars, requestVars, pollVars, syncVars, requests>>

\* lines 755-761: the body of the submission's response has been read
StallQueueBody ==
    /\ pc = "queueBody"
    /\ \E ok \in BOOLEAN :
          IF ok
          THEN /\ pc' = "result"
               /\ UNCHANGED <<hfIndex, lastError, hfResult, hfLog>>
          ELSE HfCatch(HfError(hfIndex, "API Error"))
    /\ UNCHANGED <<pool, hfCalls, timer, sseText, sseOutcome>>
    /\ UNCHANGED <<routerVars, extractVars, requestVars, pollVars, syncVars, requests>>

\* lines 769-792: the body of the result response, the SSE text, has been read
StallResultBody ==
    /\ pc = "resultBody"
    /\ \E answer \in ResultAnswers :
          CASE answer.kind = "httpError" ->
                    /\ HfCatch(HfError(hfIndex, "Result API Error"))
                    /\ UNCHANGED <<sseText, sseOutcome>>
            [] answer.kind = "throws" ->
                    /\ HfCatch(HfError(hfIndex, "rejected"))
                    /\ UNCHANGED <<sseText, sseOutcome>>
            [] answer.kind = "sse" -> HfParse(answer.lines)
    /\ UNCHANGED <<pool, hfCalls, timer>>
    /\ UNCHANGED <<routerVars, extractVars, requestVars, pollVars, syncVars, requests>>

NextStall ==
    \/ HfStart
    \/ StallSend
    \/ StallHeaders
    \/ StallTimerFires
    \/ StallQueueBody
    \/ StallResultBody

\* The handler's own steps and the timer are taken when they can be; the
\* backend is free never to send its headers or the rest of a body.
SpecStall ==
    /\ InitHuggingFace
    /\ [][NextStall]_vars
    /\ WF_vars(HfStart)
    /\ WF_vars(StallSend)
    /\ WF_vars(StallTimerFires)

----------------------------------------------------------------------------
(* Requests handled at the same time. Deno.serve calls handleChatCompletions *)
(* once per request; every variable of the handler and of the functions it *)
(* calls is a local of that call, so a request's state is one record, and   *)
(* one step runs a request from one await to the next. The backend's        *)
(* answers to a request's calls are fixed beforehand in the request's       *)
(* script.                                                                  *)

MaxScript == 2

RequestIds == {1, 2}

\* how the backend answers one call: "continue" lets the handler go on to
\* its next call, "throws" makes it throw, "images" is the final success
ScriptAnswer(kind, images) == [kind |-> kind, images |-> images]

TerminalAnswers ==
    { ScriptAnswer("throws", <<>>), ScriptAnswer("images", <<>>),
      ScriptAnswer("images", <<ImageEntry(<<>>, UrlA)>>) }

RECURSIVE Continues(_)
Continues(n) ==
    IF n = 0 THEN <<>> ELSE <<ScriptAnswer("continue", <<>>)>> \o Continues(n - 1)

Scripts ==
    { Continues(n) \o <<t>> : n \in 0 .. (MaxScript - 1), t \in TerminalAnswers }

PairHeaders ==
    { [present |-> TRUE, value |-> BearerPrefix \o k] :
        k \in {HfKey, UuidKey, GiteeKey, OddKey} }

PairTranscript ==
    << Message("user", ArrayContent(<<TextItem(TextDraw), ImageItem(UrlA)>>)) >>

PairBodies ==
    { [kind |-> "invalidJson", messages |-> <<>>, stream |-> FALSE],
      [kind |-> "ok", messages |-> PairTranscript, stream |-> FALSE],
      [kind |-> "ok", messages |-> PairTranscript, stream |-> TRUE] }

\* the locals of a request on arrival
NewRequest(header, body, script) ==
    [pc |-> "received", authHeader |-> header, requestBody |-> body,
     script |-> script, apiKey |-> <<>>, provider |-> "None",
     extracted |-> NoResult, calls |-> <<>>, outcome |-> "none",
     imageContent |-> <<>>, response |-> NoResponse, responseBody |-> <<>>]

\* a call that carries the stream flag of the request
outboundCallWithStream(l) ==
    [handler |-> adapterFor(l.provider), prompt |-> l.extracted.prompt,
     images |-> l.extracted.images,
     n |-> IF l.requestBody.stream THEN Len(l.calls) + 2 ELSE Len(l.calls) + 1]

\* the next backend call of the handler: what it sends is made of the
\* prompt and the images, and of the model and size fields of the body
outboundCall(l) ==
    [handler |-> adapterFor(l.provider), prompt |-> l.extracted.prompt,
     images |-> l.extracted.images, n |-> Len(l.calls) + 1]

\* lines 870-892
authenticated(l) ==
    LET key == credentialOf(l.authHeader)
    IN  IF authMissing(key)
        THEN [l EXCEPT !.pc = "done",
                       !.response = Responded(401, "missingAuth", "None"),
                       !.responseBody = plainBody("missingAuth")]
        ELSE IF providerUnknown(detectProvider(key))
        THEN [l EXCEPT !.pc = "done", !.apiKey = key,
                       !.provider = detectProvider(key),
                       !.response = Responded(401, "invalidKey", "None"),
                       !.responseBody = plainBody("invalidKey")]
        ELSE [l EXCEPT !.pc = "routed", !.apiKey = key,
                       !.provider = detectProvider(key)]

\* lines 894-917, up to the first await of the handler
dispatched(l) ==
    IF l.requestBody.kind # "ok"
    THEN [l EXCEPT !.pc = "done",
                   !.response = Responded(500, "error", l.provider),
                   !.responseBody = errorBody(l.provider)]
    ELSE [l EXCEPT !.pc = "adapter",
                   !.extracted = extractPromptAndImages(l.requestBody.messages)]

\* one backend call of the handler and what the handler does with its answer
called(l) ==
    LET n == Len(l.calls) + 1
        answer == IF n <= Len(l.script) THEN l.script[n]
                  ELSE ScriptAnswer("throws", <<>>)
        sent == [l EXCEPT !.calls = Append(l.calls, outboundCall(l))]
    IN  IF answer.kind = "continue" THEN sent
        ELSE IF answer.kind = "images"
                  /\ adapterResult(l.provider, answer.images).kind = "returns"
        THEN [sent EXCEPT !.pc = "respond", !.outcome = "returned",
                          !.imageContent =
                              adapterResult(l.provider, answer.images).content]
        ELSE [sent EXCEPT !.pc = "respond", !.outcome = "threw"]

\* lines 919-1006
responded(l) ==
    IF l.outcome # "returned"
    THEN [l EXCEPT !.pc = "done",
                   !.response = Responded(500, "error", l.provider),
                   !.responseBody = errorBody(l.provider)]
    ELSE IF l.requestBody.stream
    THEN [l EXCEPT !.pc = "done",
                   !.response = Responded(200, "stream", "None"),
                   !.responseBody = streamBody(l.imageContent)]
    ELSE [l EXCEPT !.pc = "done",
                   !.response = Responded(200, "completion", "None"),
                   !.responseBody = completionBody(l.imageContent)]

\* the request runs from one await to the next
advance(l) ==
    CASE l.pc = "received" -> authenticated(l)
      [] l.pc = "routed" -> dispatched(l)
      [] l.pc = "adapter" -> called(l)
      [] l.pc = "respond" -> responded(l)
      [] OTHER -> l

\* the provider held in one variable shared by every request
localsSharedProvider(states, r) == [states[r] EXCEPT !.provider = states[1].provider]

\* the locals a step of request r reads
localsOf(states, r) == states[r]

InitConcurrent ==
    /\ pc = "serving"
    /\ requests \in [RequestIds ->
           { NewRequest(h, b, sc) : h \in PairHeaders, b \in PairBodies, sc \in Scripts }]
    /\ RouterIdle
    /\ ExtractIdle
    /\ RequestIdle
    /\ PollIdle
    /\ HfIdle
    /\ SyncIdle

\* request r takes its next step
Advance(r) ==
    /\ requests[r].pc # "done"
    /\ requests' = [requests EXCEPT ![r] = advance(localsOf(requests, r))]
    /\ UNCHANGED <<pc, routerVars, extractVars, requestVars, pollVars, hfVars, syncVars>>

NextConcurrent == \E r \in RequestIds : Advance(r)

SpecConcurrent == InitConcurrent /\ [][NextConcurrent]_vars

----------------------------------------------------------------------------
(* handleHuggingFace twice: two invocations with the same request body,    *)
(* prompt and backend, each with its own image list and its own seed.  An  *)
(* invocation is a record of its locals, stepped from one request to the   *)
(* next; the URL at position i of the pool answers as script[i] says.       *)

PairPool == 2

\* seed = Math.round(Math.random() * 2147483647): two of its values
Seeds == {7, 2147483647}

PairSizes ==
    { <<>>, Size2048, <<"5", "1", "2", "x", "7", "6", "8">>, <<"b", "i", "g">>,
      <<"x", "6", "4">> }

PairPrompts == {<<>>, TextDraw}

PairImages == { <<>>, <<UrlA>>, <<UrlC, UrlA>> }

\* how one URL answers its submission and its result request
UrlAnswers ==
    { [queue |-> "httpError", result |-> [kind |-> "throws", lines |-> <<>>]],
      [queue |-> "ok", result |-> [kind |-> "httpError", lines |-> <<>>]],
      [queue |-> "ok", result |-> [kind |-> "sse", lines |-> <<EventLine(ErrorWord)>>]],
      [queue |-> "ok", result |-> [kind |-> "sse",
                                   lines |-> <<EventLine(CompleteWord), DataLine("V")>>]] }

PairScripts == [1 .. PairPool -> UrlAnswers]

\* the locals of handleHuggingFace on entry
NewInvocation(reqBody, prompt, images, seed, script) ==
    [pc |-> "start", reqBody |-> reqBody, prompt |-> prompt, images |-> images,
     seed |-> seed, script |-> script, pool |-> PairPool, i |-> 0, calls |-> <<>>,
     lastError |-> NoError, result |-> Returns(<<>>), log |-> <<>>]

\* lines 794-811: the catch block, then the next URL or the failure exit
hfCaught(l, err) ==
    IF nextUrl(l.i) <= l.pool
    THEN [l EXCEPT !.lastError = recordError(l.lastError, err), !.i = nextUrl(l.i),
                   !.pc = "queue"]
    ELSE [l EXCEPT !.lastError = recordError(l.lastError, err), !.i = nextUrl(l.i),
                   !.pc = "done", !.result = Throws]

\* lines 683-741: the warning about input images, then the loop entered
hfEntered(l) ==
    [l EXCEPT !.pc = "queue", !.i = 1,
              !.log = IF Len(l.images) > 0 THEN <<"inputImages", "warn">> ELSE <<>>]

\* lines 749-761: the submission to the URL at i
hfQueued(l) ==
    LET sent == [l EXCEPT !.calls = Append(l.calls,
                    [url |-> l.i, step |-> "queue",
                     data |-> hfRequestBody(l.reqBody, l.prompt, l.images, l.seed)])]
    IN  IF l.script[l.i].queue = "ok" THEN [sent EXCEPT !.pc = "result"]
        ELSE hfCaught(sent, HfError(l.i, "API Error"))

\* lines 764-792: the result request to the URL at i
hfAnswered(l) ==
    LET sent == [l EXCEPT !.calls = Append(l.calls,
                    [url |-> l.i, step |-> "result", data |-> <<>>])]
        answer == l.script[l.i].result
        imageUrl == extractImageUrlFromSSE(answer.lines)
    IN  IF answer.kind = "httpError" THEN hfCaught(sent, HfError(l.i, "Result API Error"))
        ELSE IF answer.kind = "throws" THEN hfCaught(sent, HfError(l.i, "rejected"))
        ELSE IF imageUrl.kind = "url"
        THEN [sent EXCEPT !.pc = "done",
                          !.result = Returns(generatedImage(imageUrl.url))]
        ELSE IF imageUrl.kind = "throws"
        THEN hfCaught(sent, HfError(l.i, "SSE error event"))
        ELSE hfCaught(sent, HfError(l.i, "no image URL extracted"))

\* the invocation runs from one await to the next
hfAdvance(l) ==
    CASE l.pc = "start" -> hfEntered(l)
      [] l.pc = "queue" -> hfQueued(l)
      [] l.pc = "result" -> hfAnswered(l)
      [] OTHER -> l

InitHfPair ==
    /\ pc = "serving"
    /\ \E size \in PairSizes, prompt \in PairPrompts, script \in PairScripts,
          images \in [RequestIds -> PairImages], seeds \in [RequestIds -> Seeds] :
          requests = [r \in RequestIds |->
              NewInvocation([model |-> "", size |-> size], prompt, images[r],
                            seeds[r], script)]
    /\ RouterIdle
    /\ ExtractIdle
    /\ RequestIdle
    /\ PollIdle
    /\ HfIdle
    /\ SyncIdle

\* both invocations take their next step
HfPairStep ==
    /\ \E r \in RequestIds : requests[r].pc # "done"
    /\ requests' = [r \in RequestIds |-> hfAdvance(requests[r])]
    /\ UNCHANGED <<pc, routerVars, extractVars, requestVars, pollVars, hfVars, syncVars>>

NextHfPair == HfPairStep

SpecHfPair == InitHfPair /\ [][NextHfPair]_vars

----------------------------------------------------------------------------
(* handleVolcEngine and handleGitee: one invocation and the events it logs *)

LogEvent(event, type, success) == [event |-> event, type |-> type, success |-> success]

\* hasImages ? "image_edit" : "generate_image"
apiTypeOf(images) == IF Len(images) > 0 THEN "image_edit" ELSE "generate_image"

\* the call type logApiCallEnd gets on the HTTP-error branch: the literal
\* "generate_image" at line 321, apiType at lines 446 and 509
failureTypeOf(handler, images) ==
    IF handler = "handleVolcEngine" THEN "generate_image" ELSE apiTypeOf(images)

HttpWord == <<"h", "t", "t", "p">>

\* line 267 / 404: img.startsWith("data:image/")
isInline(img) == StartsWith(img, DataImageScheme)

\* the handler calls urlToBase64 for image n: handleVolcEngine for every
\* image that is no data URI and starts with "http" (lines 267-270),
\* handleGitee for the first image when it is no data URI (lines 400-412)
fetches(handler, images, n) ==
    IF handler = "handleVolcEngine"
    THEN ~isInline(images[n]) /\ StartsWith(images[n], HttpWord)
    ELSE n = 1 /\ ~isInline(images[1])

\* the handler awaits urlToBase64 before its generation request
awaitsDownload(handler, images) ==
    \E n \in 1 .. Len(images) : fetches(handler, images, n)

\* the urlToBase64 call for image n has ended, and ended well
settled(done, n) == \E k \in 1 .. Len(done) : done[k].image = n

fetched(done, n) == \E k \in 1 .. Len(done) : done[k].image = n /\ done[k].ok

\* urlToBase64: the base64 text of the bytes behind a URL, named after the
\* last character of the URL; the content type is image/png
base64Of(url) == <<url[Len(url)]>>

\* `data:${mimeType};base64,${base64}`
dataUri(base64) == Base64Prefix \o base64

\* a map callback that returns nothing for an image it could not fetch
processedEntryNoFallback(images, done, n) ==
    IF isInline(images[n]) THEN images[n]
    ELSE IF StartsWith(images[n], HttpWord)
    THEN IF fetched(done, n) THEN dataUri(base64Of(images[n])) ELSE <<>>
    ELSE images[n]

\* lines 266-279: the value the map callback returns for image n
processedEntry(images, done, n) ==
    IF isInline(images[n]) THEN images[n]
    ELSE IF StartsWith(images[n], HttpWord)
    THEN IF fetched(done, n) THEN dataUri(base64Of(images[n])) ELSE images[n]
    ELSE images[n]

\* Promise.all(images.map(...)): the returned values in the order of images
processedImages(images, done) ==
    [n \in 1 .. Len(images) |-> processedEntry(images, done, n)]

\* lines 400-416: base64Data of the first image, imageInput.split(",")[1]
\* or what urlToBase64 downloaded
giteeBase64(images) ==
    IF isInline(images[1]) THEN split(images[1], ",")[2] ELSE base64Of(images[1])

\* the images a handler puts in its request
requestImages(handler, images, done) ==
    CASE handler = "handleVolcEngine" -> processedImages(images, done)
      [] handler = "handleGitee" /\ Len(images) > 0 -> <<giteeBase64(images)>>
      [] OTHER -> <<>>

\* an edit request that carries the size chosen at line 387
editSizeRequested(size) == size

\* line 426: formData.append("size", GiteeConfig.defaultEditSize)
editSize(size) == GiteeConfig.defaultEditSize

BackendRequest(url, kind, model, prompt, size, imageField, images, data, sequential) ==
    [url |-> url, kind |-> kind, model |-> model, prompt |-> prompt, size |-> size,
     imageField |-> imageField, images |-> images, data |-> data,
     sequential_image_generation |-> sequential]

\* the flag added with every image list
sequentialImageGenerationWithAny(hasImages, processed) ==
    IF hasImages THEN "disabled" ELSE "absent"

\* lines 301-304: sequential_image_generation, spread into the request
\* together with image and only for more than one image
sequentialImageGeneration(hasImages, processed) ==
    IF hasImages /\ Len(processed) > 1 THEN "disabled" ELSE "absent"

\* lines 301-302: the image property: none without input images, the one
\* image itself, or the array
imageProperty(hasImages, processed) ==
    IF ~hasImages THEN "absent"
    ELSE IF Len(processed) = 1 THEN "single" ELSE "array"

\* lines 293-315, 423-439, 485-502, 577-590, 721-753: the generation request
\* of each handler, sent holding the images in sent
backendRequest(handler, reqBody, prompt, images, sent, seed) ==
    CASE handler = "handleVolcEngine" ->
            BackendRequest(VolcEngineConfig.apiUrl, "json",
                modelOf(handler, images, reqBody), orScenery(prompt),
                sizeOf(handler, images, reqBody),
                imageProperty(Len(images) > 0, sent),
                IF Len(images) = 0 THEN <<>> ELSE sent, <<>>,
                sequentialImageGeneration(Len(images) > 0, sent))
      [] handler = "handleGitee" /\ Len(images) > 0 ->
            BackendRequest(GiteeConfig.editApiUrl, "multipart",
                modelOf(handler, images, reqBody), prompt,
                editSize(sizeOf(handler, images, reqBody)), "blob", sent, <<>>, "absent")
      [] handler = "handleGitee" /\ Len(images) = 0 ->
            BackendRequest(GiteeConfig.apiUrl, "json",
                modelOf(handler, images, reqBody), orScenery(prompt),
                sizeOf(handler, images, reqBody), "absent", <<>>, <<>>, "absent")
      [] handler = "handleModelScope" ->
            BackendRequest(ModelScopeConfig.apiUrl, "json",
                modelOf(handler, images, reqBody), orScenery(prompt),
                sizeOf(handler, images, reqBody), "absent", <<>>, <<>>, "absent")
      [] handler = "handleHuggingFace" ->
            BackendRequest("apiUrls[0]", "json", "", <<>>, <<>>, "absent", <<>>,
                hfRequestBody(reqBody, prompt, images, seed), "absent")

SyncHandlers == {"handleVolcEngine", "handleGitee"}

\* an inline image
InlineD == Base64Prefix \o <<"D">>

SyncImageInputs ==
    { <<>>, <<UrlA>>, <<InlineD>>, <<InlineD, UrlA>>, <<UrlA, UrlB>>, <<FtpUrl>>,
      <<UrlB, InlineD>> }

SyncModels == {"", "z-image-turbo", "Kolors", "doubao-seedream-4-0-250828", "dall-e-3"}

SyncSizes == {<<>>, Size1024, <<"5", "1", "2", "x", "7", "6", "8">>, <<"b", "i", "g">>}

SyncBodies == { [model |-> m, size |-> z] : m \in SyncModels, z \in SyncSizes }

\* what the backend does with the generation request: a non-success
\* response, no usable response, or a success response with an image list
SyncAnswers ==
    { [kind |-> k, images |-> <<>>] : k \in {"httpError", "rejects"} }
        \cup { [kind |-> "images", images |-> d] : d \in ImageLists }

InitSync ==
    /\ pc = "start"
    /\ syncHandler \in SyncHandlers
    /\ syncImages \in SyncImageInputs
    /\ syncBody \in SyncBodies
    /\ syncPrompt \in PairPrompts
    /\ syncLog = <<>>
    /\ syncResult = NoSyncResult
    /\ downloads = <<>>
    /\ syncLocals = NoLocals
    /\ syncCalls = <<>>
    /\ FetchIdle
    /\ requests = <<>>
    /\ PollIdle
    /\ HfIdle
    /\ RouterIdle
    /\ ExtractIdle
    /\ RequestIdle

\* lines 251-279 and 375-412: the call-start event, the model and the size
\* chosen, and every urlToBase64 call started
SyncStart ==
    /\ pc = "start"
    /\ syncLog' = Append(syncLog, LogEvent("apiCallStart", apiTypeOf(syncImages), FALSE))
    /\ syncLocals' = [model |-> modelOf(syncHandler, syncImages, syncBody),
                      size |-> sizeOf(syncHandler, syncImages, syncBody)]
    /\ pc' = IF awaitsDownload(syncHandler, syncImages) THEN "download" ELSE "generate"
    /\ UNCHANGED <<syncHandler, syncImages, syncResult, syncBody, syncPrompt, downloads,
                   syncCalls, now, fetchCalls>>
    /\ UNCHANGED <<routerVars, extractVars, requestVars, pollVars, hfVars, requests>>

\* one urlToBase64 call ends, in any order among those under way:
\* handleVolcEngine catches its failure and keeps the URL (lines 272-276),
\* handleGitee lets it out (line 412); Promise.all resolves when the last
\* one has ended
SyncDownload ==
    /\ pc = "download"
    /\ \E n \in 1 .. Len(syncImages), downloaded \in BOOLEAN :
          /\ fetches(syncHandler, syncImages, n)
          /\ ~settled(downloads, n)
          /\ downloads' = Append(downloads, [image |-> n, ok |-> downloaded])
          /\ IF ~downloaded /\ syncHandler = "handleGitee"
             THEN /\ pc' = "done"
                  /\ syncResult' = Throws
                  /\ UNCHANGED syncLog
             ELSE /\ pc' = IF \A m \in 1 .. Len(syncImages) :
                                 fetches(syncHandler, syncImages, m) =>
                                     settled(downloads', m)
                           THEN "generate" ELSE "download"
                  /\ syncLog' = IF downloaded THEN syncLog
                                ELSE Append(syncLog, LogEvent("warn", "download", FALSE))
                  /\ UNCHANGED syncResult
    /\ UNCHANGED <<syncHandler, syncImages, syncBody, syncPrompt, syncLocals, syncCalls,
                   now, fetchCalls>>
    /\ UNCHANGED <<routerVars, extractVars, requestVars, pollVars, hfVars, requests>>

\* lines 293-348, 418-474 and 485-537: the generation request and its answer
SyncGenerate ==
    /\ pc = "generate"
    /\ syncCalls' = Append(syncCalls,
            backendRequest(syncHandler, syncBody, syncPrompt, syncImages,
                           requestImages(syncHandler, syncImages, downloads), 0))
    /\ \E answer \in SyncAnswers :
          CASE answer.kind = "httpError" ->
                    /\ syncLog' = syncLog \o
                          << LogEvent("imageGenerationFailed", "none", FALSE),
                             LogEvent("apiCallEnd",
                                      failureTypeOf(syncHandler, syncImages), FALSE) >>
                    /\ syncResult' = Throws
            [] answer.kind = "rejects" ->
                    /\ syncResult' = Throws
                    /\ UNCHANGED syncLog
            [] answer.kind = "images" ->
                    LET handled == IF syncHandler = "handleVolcEngine"
                                   THEN volcEngineResult(answer.images)
                                   ELSE giteeResult(answer.images)
                    IN  /\ syncResult' = handled
                        /\ IF handled.kind = "returns"
                           THEN syncLog' = Append(syncLog,
                                    LogEvent("apiCallEnd", apiTypeOf(syncImages), TRUE))
                           ELSE UNCHANGED syncLog
    /\ pc' = "done"
    /\ UNCHANGED <<syncHandler, syncImages, syncBody, syncPrompt, downloads, syncLocals,
                   now, fetchCalls>>
    /\ UNCHANGED <<routerVars, extractVars, requestVars, pollVars, hfVars, requests>>

NextSync ==
    \/ SyncStart
    \/ SyncDownload
    \/ SyncGenerate

SpecSync == InitSync /\ [][NextSync]_vars

----------------------------------------------------------------------------
(* The model, the size and the generation request of every handler, for    *)
(* any request body: the handler runs up to its generation request with    *)
(* input images that are inline, so that nothing is downloaded.            *)

Handlers == {"handleVolcEngine", "handleGitee", "handleModelScope", "handleHuggingFace"}

InlineImages == { <<>>, <<InlineD>>, <<InlineD, UrlC>> }

RequestedModels ==
    { "", "doubao-seedream-4-0-250828", "z-image-turbo", "Kolors",
      "Tongyi-MAI/Z-Image-Turbo", "Qwen-Image-Edit-2511", "dall-e-3" }

RequestedSizes == PairSizes \cup {Size2K, Size1024}

InitResolve ==
    /\ pc = "start"
    /\ syncHandler \in Handlers
    /\ syncImages \in InlineImages
    /\ syncBody \in { [model |-> m, size |-> z] : m \in RequestedModels, z \in RequestedSizes }
    /\ syncPrompt \in PairPrompts
    /\ syncLog = <<>>
    /\ syncResult = NoSyncResult
    /\ downloads = <<>>
    /\ syncLocals = NoLocals
    /\ syncCalls = <<>>
    /\ FetchIdle
    /\ requests = <<>>
    /\ PollIdle
    /\ HfIdle
    /\ RouterIdle
    /\ ExtractIdle
    /\ RequestIdle

\* lines 251-315, 375-439, 476-502, 560-590, 683-753: from the entry of the
\* handler to its generation request
BuildRequest ==
    /\ pc = "start"
    /\ syncLocals' = [model |-> modelOf(syncHandler, syncImages, syncBody),
                      size |-> sizeOf(syncHandler, syncImages, syncBody)]
    /\ \E seed \in Seeds :
          syncCalls' = Append(syncCalls,
              backendRequest(syncHandler, syncBody, syncPrompt, syncImages,
                             requestImages(syncHandler, syncImages, downloads), seed))
    /\ pc' = "requested"
    /\ UNCHANGED <<syncHandler, syncImages, syncLog, syncResult, syncBody, syncPrompt,
                   downloads, now, fetchCalls>>
    /\ UNCHANGED <<routerVars, extractVars, requestVars, pollVars, hfVars, requests>>

NextResolve == BuildRequest

SpecResolve == InitResolve /\ [][NextResolve]_vars

----------------------------------------------------------------------------
(* fetchWithTimeout: several calls under way at once (the downloads of     *)
(* Promise.all, or the calls of requests served at the same time), with    *)
(* time passing in ticks.  Each call has its own AbortController and its   *)
(* own timer; a timer that is armed fires when its delay has passed.       *)

MaxCalls == 2

MaxTime == 4

\* timeoutMs = API_TIMEOUT_MS, in ticks
TimeoutTicks == 2

CallIds == 1 .. MaxCalls

\* a call not yet made
NoCall ==
    [pc |-> "idle", timeoutId |-> "none", aborted |-> FALSE, deadline |-> 0,
     error |-> "none"]

\* a finally block that leaves the timer alone
afterFinallyKeeps(timeoutId) == timeoutId

\* line 197: clearTimeout(timeoutId); a timer that has fired stays fired
afterFinally(timeoutId) == IF timeoutId = "armed" THEN "cleared" ELSE timeoutId

InitFetch ==
    /\ pc = "serving"
    /\ now = 0
    /\ fetchCalls = [c \in CallIds |-> NoCall]
    /\ syncHandler = "none"
    /\ syncImages = <<>>
    /\ syncLog = <<>>
    /\ syncResult = NoSyncResult
    /\ syncBody = NoBody
    /\ syncPrompt = <<>>
    /\ downloads = <<>>
    /\ syncLocals = NoLocals
    /\ syncCalls = <<>>
    /\ requests = <<>>
    /\ PollIdle
    /\ HfIdle
    /\ RouterIdle
    /\ ExtractIdle
    /\ RequestIdle

FetchUnchanged ==
    /\ UNCHANGED <<syncHandler, syncImages, syncLog, syncResult, syncBody, syncPrompt,
                   downloads, syncLocals, syncCalls>>
    /\ UNCHANGED <<pc, routerVars, extractVars, requestVars, pollVars, hfVars, requests>>

\* lines 187-194: the controller made, the timer set, the request sent
FetchStart(c) ==
    /\ fetchCalls[c].pc = "idle"
    /\ fetchCalls' = [fetchCalls EXCEPT ![c] =
            [pc |-> "pending", timeoutId |-> "armed", aborted |-> FALSE,
             deadline |-> now + TimeoutTicks, error |-> "none"]]
    /\ UNCHANGED now
    /\ FetchUnchanged

\* lines 191-197: fetch resolves with the response, the finally block runs
\* and the response is returned
FetchResponds(c) ==
    /\ fetchCalls[c].pc = "pending"
    /\ ~fetchCalls[c].aborted
    /\ fetchCalls' = [fetchCalls EXCEPT ![c].pc = "returned",
                                        ![c].timeoutId = afterFinally(@)]
    /\ UNCHANGED now
    /\ FetchUnchanged

\* lines 191-197: fetch rejects on a transport error, the finally block
\* runs and the error leaves the call
FetchRejects(c) ==
    /\ fetchCalls[c].pc = "pending"
    /\ ~fetchCalls[c].aborted
    /\ fetchCalls' = [fetchCalls EXCEPT ![c].pc = "failed",
                                        ![c].timeoutId = afterFinally(@),
                                        ![c].error = "TypeError"]
    /\ UNCHANGED now
    /\ FetchUnchanged

\* line 188: the delay has passed and the timer was not cleared: the
\* callback runs controller.abort()
TimerFires(c) ==
    /\ fetchCalls[c].timeoutId = "armed"
    /\ now >= fetchCalls[c].deadline
    /\ fetchCalls' = [fetchCalls EXCEPT ![c].timeoutId = "fired",
                                        ![c].aborted = TRUE]
    /\ UNCHANGED now
    /\ FetchUnchanged

\* lines 191-197: the request of an aborted controller is dropped, fetch
\* rejects with an AbortError, the finally block runs and the error leaves
\* the call; a controller aborted after its call has ended aborts nothing
AbortRejects(c) ==
    /\ fetchCalls[c].pc = "pending"
    /\ fetchCalls[c].aborted
    /\ fetchCalls' = [fetchCalls EXCEPT ![c].pc = "failed",
                                        ![c].timeoutId = afterFinally(@),
                                        ![c].error = "AbortError"]
    /\ UNCHANGED now
    /\ FetchUnchanged

\* time passes, but not past the delay of a timer that is armed nor while
\* an aborted fetch has yet to reject
Tick ==
    /\ now < MaxTime
    /\ \A c \in CallIds :
          /\ fetchCalls[c].timeoutId = "armed" => now < fetchCalls[c].deadline
          /\ ~(fetchCalls[c].pc = "pending" /\ fetchCalls[c].aborted)
    /\ now' = now + 1
    /\ UNCHANGED fetchCalls
    /\ FetchUnchanged

NextFetch ==
    \/ \E c \in CallIds : FetchStart(c)
    \/ \E c \in CallIds : FetchResponds(c)
    \/ \E c \in CallIds : FetchRejects(c)
    \/ \E c \in CallIds : TimerFires(c)
    \/ \E c \in CallIds : AbortRejects(c)
    \/ Tick

SpecFetch == InitFetch /\ [][NextFetch]_vars

----------------------------------------------------------------------------
(* Claims                                                                  *)

\* The credential is a canonical 8-4-4-4-12 hexadecimal UUID, either case.
IsCanonicalUuid(k) ==
    /\ Len(k) = 36
    /\ \A i \in 1 .. 36 :
          IF i \in {9, 14, 19, 24}
          THEN k[i] = "-"
          ELSE k[i] \in Digits \cup LowerHex \cup UpperHex

\* The credential is 30 to 60 ASCII letters and digits.
IsAlnum30to60(k) ==
    /\ Len(k) >= 30
    /\ Len(k) <= 60
    /\ \A i \in 1 .. Len(k) : k[i] \in LowerLetters \cup UpperLetters \cup Digits

BeginsHf(k) == Len(k) >= 3 /\ k[1] = "h" /\ k[2] = "f" /\ k[3] = "_"

BeginsMs(k) == Len(k) >= 3 /\ k[1] = "m" /\ k[2] = "s" /\ k[3] = "-"

\* C1: detectProvider returns Unknown for the empty credential, HuggingFace
\* for an hf_ prefix, ModelScope for an ms- prefix, VolcEngine for a whole
\* canonical UUID (either case), Gitee for 30 to 60 letters and digits, and
\* Unknown for every other credential.
C1_DetectProvider ==
    pc = "classified" =>
        /\ (apiKey = <<>>) => provider = "Unknown"
        /\ BeginsHf(apiKey) => provider = "HuggingFace"
        /\ BeginsMs(apiKey) => provider = "ModelScope"
        /\ IsCanonicalUuid(apiKey) => provider = "VolcEngine"
        /\ IsAlnum30to60(apiKey) => provider = "Gitee"
        /\ (~BeginsHf(apiKey) /\ ~BeginsMs(apiKey) /\ ~IsCanonicalUuid(apiKey)
                /\ ~IsAlnum30to60(apiKey)) => provider = "Unknown"

\* A 60-character credential was routed to Gitee.
C1_Witness ==
    pc = "classified" /\ Len(apiKey) = 60 /\ provider = "Gitee"

\* the request is for the chat endpoint and its Authorization header is
\* missing, leaves no credential, or leaves one that classifies as Unknown
Unauthenticated ==
    /\ pathname = "/v1/chat/completions"
    /\ \/ ~authHeader.present
       \/ credentialOf(authHeader) = <<>>
       \/ detectProvider(credentialOf(authHeader)) = "Unknown"

\* C2: a request to /v1/chat/completions without a usable credential ends
\* with a 401 response; at no point of it is an adapter handler invoked or a
\* backend call issued.
C2_AuthShortCircuit ==
    Unauthenticated =>
        /\ invoked = <<>>
        /\ outbound = 0
        /\ pc \in {"received", "done"}
        /\ pc = "done" => response.status = 401

\* A request whose header holds a credential of no known shape was answered.
C2_Witness ==
    /\ pc = "done"
    /\ authHeader.present
    /\ credentialOf(authHeader) # <<>>
    /\ detectProvider(credentialOf(authHeader)) = "Unknown"
    /\ pathname = "/v1/chat/completions"
    /\ response.status = 401

\* the request passed the classification of its credential
Routed ==
    /\ pc # "received"
    /\ pathname = "/v1/chat/completions"
    /\ ~Unauthenticated

HandlerNames ==
    [VolcEngine |-> "handleVolcEngine", Gitee |-> "handleGitee",
     ModelScope |-> "handleModelScope", HuggingFace |-> "handleHuggingFace"]

\* the provider is the one detectProvider computed from the request's
\* credential, and no handler but that provider's was invoked, at most once
OneProviderOneHandler ==
    /\ provider = detectProvider(credentialOf(authHeader))
    /\ provider \in DOMAIN HandlerNames
    /\ Len(invoked) <= 1
    /\ \A n \in 1 .. Len(invoked) : invoked[n] = HandlerNames[provider]

\* C3 as claimed: for a routed request the provider does not change, and
\* exactly one adapter handler, the provider's, is invoked, no other one
\* after it failed.
C3_ExactlyOneAdapterAsClaimed ==
    Routed =>
        /\ OneProviderOneHandler
        /\ pc = "done" => Len(invoked) = 1

\* C3, amended: for a routed request the provider does not change and at most
\* one adapter handler, the provider's, is invoked, no other one after it
\* failed: exactly one when the body is read and the prompt extracted without
\* an exception, none when that step throws.
C3_OneAdapter ==
    Routed =>
        /\ OneProviderOneHandler
        /\ pc \in {"adapter", "respond"} => Len(invoked) = 1
        /\ pc = "done" => Len(invoked) = (IF requestBody.kind = "ok" THEN 1 ELSE 0)
        /\ (pc = "done" /\ requestBody.kind # "ok") => response.status = 500

\* The Gitee handler threw after a backend call; the request ended with the
\* error response and that one handler invoked.
C3_Witness ==
    /\ pc = "done"
    /\ provider = "Gitee"
    /\ outcome = "threw"
    /\ outbound >= 1
    /\ invoked = <<"handleGitee">>
    /\ response.status = 500

Max(S) == CHOOSE x \in S : \A y \in S : y <= x

UserIndexes == {i \in 1 .. Len(messages) : messages[i].role = "user"}

\* the index L of the last message whose role is "user", 0 when there is none
LastUser == IF UserIndexes = {} THEN 0 ELSE Max(UserIndexes)

\* C4: the prompt comes from the last message whose role is "user": a plain
\* text content is the prompt as it stands; a transcript with no user
\* message gives prompt "" and no images, whatever the other messages hold.
C4_PromptFromLastUser ==
    pc = "extracted" =>
        /\ LastUser = 0 => extracted = [prompt |-> <<>>, images |-> <<>>]
        /\ (LastUser # 0 /\ messages[LastUser].content.kind = "string")
                => extracted.prompt = messages[LastUser].content.text

\* Two user messages with different plain texts, the later one followed by
\* another message: the prompt is the later one's text.
C4_Witness ==
    /\ pc = "extracted"
    /\ Len(messages) = 3
    /\ messages[1].role = "user"
    /\ messages[2].role = "user"
    /\ messages[3].role # "user"
    /\ messages[1].content.kind = "string"
    /\ messages[2].content.kind = "string"
    /\ messages[1].content.text # messages[2].content.text
    /\ extracted.prompt = messages[2].content.text

\* the URLs of the image items of a list, in list order, without the items
\* whose URL is missing or empty
RECURSIVE UrlsInOrder(_)
UrlsInOrder(items) ==
    IF items = <<>> THEN <<>>
    ELSE (IF Head(items).type = "image_url" /\ Head(items).hasUrl
                /\ Head(items).url # <<>>
          THEN <<Head(items).url>>
          ELSE <<>>) \o UrlsInOrder(Tail(items))

TextIndexes(items) == {i \in 1 .. Len(items) : items[i].type = "text"}

Min(S) == CHOOSE x \in S : \A y \in S : x <= y

NoEarlierImage ==
    \A i \in 1 .. (LastUser - 1) : foundInMsg(messages[i]) = <<>>

\* C5: with a structured last user message the prompt is the text of its
\* first text item ("" without one), the result's images begin with the URLs
\* of its image items in list order, missing and empty URLs skipped, and
\* with no image in any earlier message they are the whole result.
C5_StructuredContent ==
    (pc = "extracted" /\ LastUser # 0
        /\ messages[LastUser].content.kind = "array") =>
        LET items == messages[LastUser].content.items
            urls == UrlsInOrder(items)
        IN  /\ extracted.prompt =
                  (IF TextIndexes(items) = {} THEN <<>>
                   ELSE items[Min(TextIndexes(items))].text)
            /\ Len(extracted.images) >= Len(urls)
            /\ SubSeq(extracted.images, 1, Len(urls)) = urls
            /\ NoEarlierImage => extracted.images = urls

\* One user message with a text and two image items, after image-free
\* messages: that text and the two URLs in order, nothing appended.
C5_Witness ==
    /\ pc = "extracted"
    /\ LastUser = Len(messages)
    /\ LastUser > 1
    /\ NoEarlierImage
    /\ messages[LastUser].content.kind = "array"
    /\ extracted = [prompt |-> TextDraw, images |-> <<UrlA, UrlB>>]

\* the messages before the last user message that hold an image
ImageBearers == {i \in 1 .. (LastUser - 1) : foundInMsg(messages[i]) # <<>>}

\* C6: the historical images come from one message, the nearest one before
\* the last user message that holds an image: the result holds the current
\* images and that message's images and nothing else, nothing from further
\* back and nothing from after the last user message.
C6_NearestHistory ==
    (pc = "extracted" /\ LastUser # 0) =>
        Range(extracted.images) =
            Range(currentImages(messages))
                \cup (IF ImageBearers = {} THEN {}
                      ELSE Range(foundInMsg(messages[Max(ImageBearers)])))

\* Two image-bearing messages before the last user message, and an image of
\* the farther one is not in the result.
C6_Witness ==
    /\ pc = "extracted"
    /\ LastUser = 3
    /\ ImageBearers = {1, 2}
    /\ \E u \in Range(foundInMsg(messages[1])) : u \notin Range(extracted.images)

\* a sequence without the entries that repeat an earlier one
RECURSIVE FirstOccurrences(_)
FirstOccurrences(s) ==
    IF s = <<>> THEN <<>>
    ELSE LET init == SubSeq(s, 1, Len(s) - 1)
         IN  IF s[Len(s)] \in Range(init)
             THEN FirstOccurrences(init)
             ELSE Append(FirstOccurrences(init), s[Len(s)])

\* the historical images that are not among the current ones
NewHistorical ==
    LET fresh(u) == u \notin Range(currentImages(messages))
    IN  SelectSeq(historicalImages(messages), fresh)

\* C7 as claimed: the result is the current images followed by the historical
\* images that are not among the current ones, in historical order.
C7_MergeAsClaimed ==
    pc = "extracted" =>
        extracted.images = currentImages(messages) \o NewHistorical

\* C7, amended: the result is the current images followed by the historical
\* images that are not among the current ones, in historical order, each
\* historical image once (a repeat within the history is dropped).
C7_Merge ==
    pc = "extracted" =>
        extracted.images = currentImages(messages) \o FirstOccurrences(NewHistorical)

\* Current [A] and history [B, C] merged into [A, B, C].
C7_Witness ==
    /\ pc = "extracted"
    /\ currentImages(messages) = <<UrlA>>
    /\ historicalImages(messages) = <<UrlB, UrlC>>
    /\ extracted.images = <<UrlA, UrlB, UrlC>>

\* C8: the returned image list never holds the same reference twice.
C8_NoDuplicateImages ==
    pc = "extracted" =>
        \A i, j \in 1 .. Len(extracted.images) :
            i # j => extracted.images[i] # extracted.images[j]

\* the submit succeeded and no poll was answered with a terminal status or
\* left without an answer
NeverTerminal ==
    lastAnswer \in {"submit:ok", "PENDING", "httpError"}

\* C10: after a successful submit, k polls answered without a terminal
\* status and then one answered SUCCEED (k < 60) make the adapter return
\* success after exactly k + 1 poll requests; a backend that never answers
\* with a terminal status makes it fail with "ModelScope Task Timeout" after
\* exactly 60 poll requests.
C10_PollingOutcome ==
    /\ (pc = "done" /\ lastAnswer = "SUCCEED") =>
            /\ result = "success"
            /\ statusPending + httpErrors < 60
            /\ pollRequests = statusPending + httpErrors + 1
    /\ (pc = "done" /\ result = "success") => lastAnswer = "SUCCEED"
    /\ (pc = "done" /\ NeverTerminal) =>
            /\ result = "ModelScope Task Timeout"
            /\ pollRequests = 60
            /\ statusPending + httpErrors = 60
    /\ result = "ModelScope Task Timeout" => (NeverTerminal /\ pollRequests = 60)

\* Sixty polls, every one answered PENDING, and the adapter timed out.
C10_Witness ==
    /\ pc = "done"
    /\ result = "ModelScope Task Timeout"
    /\ statusPending = 60
    /\ pollRequests = 60


\* C11: a poll request that fails in transport does not fail the request:
\* the loop goes on to its next attempt and no result has been decided.
C11_PollTransportErrorContinues ==
    lastAnswer = "throws" => (pc = "loop" /\ result = "none")

\* the URLs that received a request, and the requests one URL received
UrlsTried == {hfCalls[n].url : n \in 1 .. Len(hfCalls)}

CallsTo(u, step) == {n \in 1 .. Len(hfCalls) : hfCalls[n] = [url |-> u, step |-> step]}

\* C12: the URLs are tried in configured order from the first one on, each
\* receives at most one submission and, only after it, at most one result
\* request; the adapter ends at the first URL whose stream yields an image
\* URL, returning that URL's image, and no later URL has received a request.
C12_FailoverOrder ==
    /\ \A n \in 1 .. Len(hfCalls) - 1 : hfCalls[n].url <= hfCalls[n + 1].url
    /\ UrlsTried = 1 .. Cardinality(UrlsTried)
    /\ UrlsTried \subseteq 1 .. pool
    /\ \A u \in UrlsTried :
          /\ Cardinality(CallsTo(u, "queue")) = 1
          /\ Cardinality(CallsTo(u, "result")) <= 1
          /\ \A n \in CallsTo(u, "result") :
                n > 1 /\ hfCalls[n - 1] = [url |-> u, step |-> "queue"]
    /\ (pc = "done" /\ hfResult.kind = "image") =>
          /\ hfCalls[Len(hfCalls)] = [url |-> hfResult.url, step |-> "result"]
          /\ UrlsTried = 1 .. hfResult.url
          /\ hfResult.url > 1 => lastError.url = hfResult.url - 1

\* In a pool of four, the first two URLs failed and the third gave the image.
C12_Witness ==
    /\ pc = "done"
    /\ pool = 4
    /\ hfResult.kind = "image"
    /\ hfResult.url = 3
    /\ lastError.url = 2

\* C13: when every URL of a non-empty pool has failed, the adapter fails
\* with the error recorded for the last URL of the pool.
C13_LastErrorSurfaced ==
    (pc = "done" /\ pool > 0 /\ hfResult.kind = "error") =>
        /\ UrlsTried = 1 .. pool
        /\ hfResult.value.url = pool
        /\ hfResult.value = lastError
        /\ hfResult.value.kind \in
              {"API Error", "Result API Error", "rejected", "SSE error event",
               "no image URL extracted"}
        /\ hfResult.value.kind \in {"API Error"} =>
              CallsTo(pool, "result") = {}
        /\ hfResult.value.kind \in
              {"Result API Error", "SSE error event", "no image URL extracted"} =>
              CallsTo(pool, "result") # {}

\* Three URLs: the first failed at its submission, the last answered its
\* result request with an SSE error event, which is the error surfaced.
C13_Witness ==
    /\ pc = "done"
    /\ pool = 3
    /\ hfResult.kind = "error"
    /\ hfResult.value = [url |-> 3, kind |-> "SSE error event"]
    /\ CallsTo(1, "result") = {}
    /\ CallsTo(2, "result") # {}

\* the response is a chat completion, streamed or not
IsCompletion ==
    /\ pc = "done"
    /\ response.status = 200
    /\ response.kind \in {"stream", "completion"}

\* the contents the response body carries
BodyContents ==
    {responseBody[n].content : n \in {m \in 1 .. Len(responseBody) : responseBody[m].hasContent}}

\* the entries of the backend's answer that hold an image reference
ImageBearing ==
    {n \in 1 .. Len(backendData.images) :
        backendData.images[n].b64_json # <<>> \/ backendData.images[n].url # <<>>}

\* the successful answers the handler turns into an exception
AnswerRejected ==
    \/ provider = "Gitee" /\ backendData.images = <<>>
    \/ provider = "HuggingFace" /\
          (backendData.images = <<>> \/ backendData.images[1].url = <<>>)

\* the successful answers the handler turns into the placeholder
AnswerWithoutImage ==
    \/ provider \in {"VolcEngine", "Gitee"} /\ ImageBearing = {}
    \/ provider = "ModelScope" /\ backendData.images = <<>>

\* C14 as claimed: whenever the backend's successful answer holds no image
\* for the adapter to use, the response is a 200 whose content is the
\* placeholder.
C14_PlaceholderAsClaimed ==
    (pc = "done" /\ backendData.answered /\ ImageBearing = {}) =>
        (IsCompletion /\ BodyContents = {Placeholder})

\* C14: the content of a chat-completion response is the string the handler
\* returned and is never empty, in both envelopes; it is the placeholder
\* exactly for the answers without an image that the handler accepts, and
\* the answers the handler rejects end with the 500 response.
C14_ContentNeverEmpty ==
    /\ IsCompletion =>
          /\ backendData.answered
          /\ BodyContents = {imageContent}
          /\ imageContent # <<>>
          /\ ~AnswerRejected
          /\ (imageContent = Placeholder) <=> AnswerWithoutImage
    /\ (pc = "done" /\ backendData.answered /\ AnswerRejected) =>
          (response.status = 500 /\ BodyContents = {})

\* A streamed Gitee completion whose backend list has one entry with neither
\* field: the content is the placeholder.
C14_Witness ==
    /\ IsCompletion
    /\ provider = "Gitee"
    /\ requestBody.stream
    /\ Len(backendData.images) = 1
    /\ BodyContents = {Placeholder}

\* two requests that differ in the stream flag and in nothing else, given
\* the same backend answers, both answered
DifferInStreamOnly(a, b) ==
    /\ requests[a].pc = "done"
    /\ requests[b].pc = "done"
    /\ requests[a].authHeader = requests[b].authHeader
    /\ requests[a].script = requests[b].script
    /\ requests[a].requestBody.kind = requests[b].requestBody.kind
    /\ requests[a].requestBody.messages = requests[b].requestBody.messages
    /\ requests[a].requestBody.stream # requests[b].requestBody.stream

\* the body of a streamed completion: the content chunk, the chunk with
\* finish_reason "stop", the terminal marker
IsStreamOf(body, content) ==
    /\ Len(body) = 3
    /\ body[1].type = "chat.completion.chunk"
    /\ body[1].hasContent /\ body[1].content = content
    /\ body[1].finish_reason = "null"
    /\ body[2].type = "chat.completion.chunk"
    /\ ~body[2].hasContent
    /\ body[2].finish_reason = "stop"
    /\ body[3].type = "[DONE]"
    /\ ~body[3].hasContent

\* C15: two requests that differ only in the stream flag have the same
\* provider, the same outbound calls in the same order, the same image
\* content and the same status; a streamed completion is the content chunk,
\* then the chunk with finish_reason "stop", then [DONE].
C15_StreamChangesEnvelopeOnly ==
    /\ \A a, b \in RequestIds :
          DifferInStreamOnly(a, b) =>
              /\ requests[a].provider = requests[b].provider
              /\ requests[a].calls = requests[b].calls
              /\ requests[a].imageContent = requests[b].imageContent
              /\ requests[a].extracted = requests[b].extracted
              /\ requests[a].response.status = requests[b].response.status
    /\ \A r \in RequestIds :
          (requests[r].pc = "done" /\ requests[r].response.status = 200) =>
              IF requests[r].requestBody.stream
              THEN /\ requests[r].response.kind = "stream"
                   /\ IsStreamOf(requests[r].responseBody, requests[r].imageContent)
              ELSE /\ requests[r].response.kind = "completion"
                   /\ Len(requests[r].responseBody) = 1
                   /\ requests[r].responseBody[1].content = requests[r].imageContent

\* Two Gitee requests alike but for the stream flag, each answered 200
\* after two backend calls.
C15_Witness ==
    /\ DifferInStreamOnly(1, 2)
    /\ requests[1].provider = "Gitee"
    /\ requests[1].requestBody.stream
    /\ requests[1].response.status = 200
    /\ requests[2].response.status = 200
    /\ Len(requests[1].calls) = 2
    /\ requests[1].imageContent # Placeholder

\* the credential was routed and the request failed afterwards: the body
\* was not read or the prompt not extracted, or the handler threw
FailedAfterRouting ==
    /\ pc = "done"
    /\ provider \in {"VolcEngine", "Gitee", "ModelScope", "HuggingFace"}
    /\ (requestBody.kind # "ok" \/ outcome = "threw")

\* C16: a failure after routing gives the 500 response whose body is the
\* one error envelope, of type "server_error", naming the provider the
\* credential was routed to, and carrying no content; and only such a
\* failure gives a 500.
C16_ErrorEnvelope ==
    /\ FailedAfterRouting =>
          /\ response.status = 500
          /\ response.provider = detectProvider(credentialOf(authHeader))
          /\ Len(responseBody) = 1
          /\ responseBody[1].type = "server_error"
          /\ responseBody[1].provider = detectProvider(credentialOf(authHeader))
          /\ ~responseBody[1].hasContent
          /\ responseBody[1].content = <<>>
          /\ imageContent = <<>>
    /\ (pc = "done" /\ response.status = 500) => FailedAfterRouting

\* A Gitee request whose backend answered with an empty list after two
\* calls: the handler threw and the response is the error envelope.
C16_Witness ==
    /\ FailedAfterRouting
    /\ provider = "Gitee"
    /\ outbound = 2
    /\ backendData.answered
    /\ response.status = 500

\* the positions of the events of one kind in the log of the invocation
EventsOf(event) == {n \in 1 .. Len(syncLog) : syncLog[n].event = event}

\* C17: when the handler has returned or thrown, its log holds the
\* call-start event and after it exactly one call-end event, of the same
\* call type and with the success flag of the outcome, and a handler that
\* threw has logged the failure-reason event.
C17_CallEventsComplete ==
    pc = "done" =>
        /\ EventsOf("apiCallStart") = {1}
        /\ Cardinality(EventsOf("apiCallEnd")) = 1
        /\ \A n \in EventsOf("apiCallEnd") :
              /\ syncLog[n].type = syncLog[1].type
              /\ syncLog[n].success = (syncResult.kind = "returns")
        /\ syncResult.kind = "throws" => EventsOf("imageGenerationFailed") # {}

\* a request run alone: n steps from its arrival
RECURSIVE RunAlone(_, _)
RunAlone(l, n) == IF n = 0 THEN l ELSE RunAlone(advance(l), n - 1)

\* state t is met within n steps of the run alone that starts at l
RECURSIVE OnRunAlone(_, _, _)
OnRunAlone(l, t, n) == l = t \/ (n > 0 /\ OnRunAlone(advance(l), t, n - 1))

\* the steps a request takes at most: the credential, the body, one per
\* scripted answer, the response
StepsBound == MaxScript + 3

Arrival(r) ==
    NewRequest(requests[r].authHeader, requests[r].requestBody, requests[r].script)

C19_RoutingEventPrefixOnly ==
    \A n \in 1 .. Len(routingLog) :
        /\ routingLog[n].provider = provider
        /\ routingLog[n].keyPrefix = SubSeq(apiKey, 1, Len(routingLog[n].keyPrefix))
        /\ Len(routingLog[n].keyPrefix) <= 4
        /\ routingLog[n].keyPrefix # apiKey

\* C20: the invocation ends, with a result or an error, whatever the
\* backend leaves unanswered.
C20_AlwaysTerminates == <>(pc = "done")

\* the task statuses that end the polling
TerminalStatuses == {"SUCCEED", "FAILED"}

\* the poll answered last reported a terminal status
TerminalSeen == checkData.task_status \in TerminalStatuses

\* C21: poll requests are issued only between a successful submit and the
\* first terminal status.  A submit answered with a non-success status
\* fails the request with no poll request; after a poll reports SUCCEED
\* the adapter has returned the reported image URLs, in order, as markdown
\* images; after a poll reports FAILED it has thrown "ModelScope Task
\* Failed" carrying the status payload; and no step issues a poll request
\* after a failed submit or after a terminal status.
C21_PollsBetweenSubmitAndTerminal ==
    /\ [](/\ lastAnswer = "submit:httpError" =>
                /\ pc = "done"
                /\ pollRequests = 0
                /\ returned.kind = "throws"
                /\ returned.content = "ModelScope Submit Error"
          /\ pollRequests > 0 => taskId = "task"
          /\ checkData.task_status = "SUCCEED" =>
                /\ pc = "done"
                /\ returned.kind = "returns"
                /\ checkData.output_images # <<>> =>
                        markdownImages(returned.content) = checkData.output_images
          /\ checkData.task_status = "FAILED" =>
                /\ pc = "done"
                /\ returned.kind = "throws"
                /\ returned.content = "ModelScope Task Failed"
                /\ returned.payload = checkData)
    /\ [][pollRequests' # pollRequests =>
                /\ taskId = "task"
                /\ lastAnswer # "submit:httpError"
                /\ ~TerminalSeen]_vars

\* A poll answered FAILED after two polls answered with a status in
\* progress: the adapter stopped with the payload in its error.
C21_Witness ==
    /\ pc = "done"
    /\ checkData.task_status = "FAILED"
    /\ statusPending = 2
    /\ pollRequests = 3
    /\ returned.payload = checkData

\* the polls that were answered and left the loop running
AttemptsConsumed == statusPending + httpErrors

\* C22: one invocation issues at most 60 poll requests; every poll request,
\* the first included, comes after a sleep of its own (the sleeps taken
\* are the poll requests issued, plus one while a poll is about to be
\* sent); and a poll answered with a non-success HTTP status uses up an
\* attempt as one answered with a status in progress does: the attempts
\* begun are the two kinds together, and 60 of them in any mix end the
\* invocation with the timeout.
C22_PollBudget ==
    /\ pollRequests <= 60
    /\ sleeps = pollingAttempts
    /\ sleeps = pollRequests + (IF pc = "poll" THEN 1 ELSE 0)
    /\ pc = "loop" => pollingAttempts = AttemptsConsumed
    /\ AttemptsConsumed <= 60
    /\ (pc = "done" /\ AttemptsConsumed = 60) =>
            /\ result = "ModelScope Task Timeout"
            /\ pollRequests = 60

\* Sixty polls, half answered with a non-success HTTP status and half
\* with a status in progress, ended in the timeout.
C22_Witness ==
    /\ pc = "done"
    /\ result = "ModelScope Task Timeout"
    /\ httpErrors = 30
    /\ statusPending = 30
    /\ sleeps = 60
    /\ pollRequests = 60

IsEventLine(line) == StartsWith(line, EventPrefix)

EventTypeOf(line) == Trim(SubSeq(line, 7, Len(line)))

IsDataLine(line) == ~IsEventLine(line) /\ StartsWith(line, DataPrefix)

JsonOf(line) == Trim(SubSeq(line, 6, Len(line)))

\* the position of the event line seen last before line k, 0 when none
RecentEvent(k) == Max({0} \cup {j \in 1 .. k - 1 : IsEventLine(sseText[j])})

\* the data lines whose most recent event line is "complete" and whose
\* JSON text is an array with a url in its first element
PayloadLines ==
    { k \in 1 .. Len(sseText) :
        /\ IsDataLine(sseText[k])
        /\ RecentEvent(k) # 0
        /\ EventTypeOf(sseText[RecentEvent(k)]) = CompleteWord
        /\ JsonOf(sseText[k]) \in {<<"U">>, <<"V">>} }

\* the event lines of type "error"
ErrorLines ==
    { k \in 1 .. Len(sseText) :
        IsEventLine(sseText[k]) /\ EventTypeOf(sseText[k]) = ErrorWord }

\* the url of the first element of the JSON array of line k
UrlOfLine(k) == IF JsonOf(sseText[k]) = <<"U">> THEN UrlA ELSE UrlB

SameButSeed(a, b) ==
    /\ a.url = b.url
    /\ a.step = b.step
    /\ Len(a.data) = Len(b.data)
    /\ \A k \in 1 .. Len(a.data) : k # 5 => a.data[k] = b.data[k]

\* C24: two invocations of handleHuggingFace that differ in their image
\* lists (and in the random seed) send the same requests to the same URLs
\* in the same order, every submission carrying six values, the prompt,
\* height, width, 9 steps, the invocation's seed and false, and with the
\* same backend answers they end with the same result.
C24_ImagesIgnored ==
    LET a == requests[1]
        b == requests[2]
    IN  requests # <<>> =>
        /\ a.pc = b.pc
        /\ Len(a.calls) = Len(b.calls)
        /\ \A n \in 1 .. Len(a.calls) : SameButSeed(a.calls[n], b.calls[n])
        /\ \A r \in RequestIds : \A n \in 1 .. Len(requests[r].calls) :
              requests[r].calls[n].step = "queue" =>
                  /\ Len(requests[r].calls[n].data) = 6
                  /\ requests[r].calls[n].data[1] \in {requests[r].prompt, Scenery}
                  /\ requests[r].calls[n].data[4] = 9
                  /\ requests[r].calls[n].data[5] = requests[r].seed
                  /\ requests[r].calls[n].data[6] = FALSE
        /\ a.result = b.result

\* One invocation without images and one with two, both answered by the
\* second URL of the pool after the first one failed.
C24_Witness ==
    /\ requests # <<>>
    /\ requests[1].images = <<>>
    /\ requests[2].images = <<UrlC, UrlA>>
    /\ requests[1].pc = "done"
    /\ requests[2].pc = "done"
    /\ requests[2].result = Returns(generatedImage(UrlB))
    /\ requests[2].calls[Len(requests[2].calls)].url = 2

\* the urlToBase64 call for image n ended in failure
FetchFailed(n) == \E k \in 1 .. Len(downloads) : downloads[k].image = n /\ ~downloads[k].ok

FetchSucceeded(n) == \E k \in 1 .. Len(downloads) : downloads[k].image = n /\ downloads[k].ok

\* C25: the image list handleVolcEngine sends has the length and the order
\* of the input list, in whatever order the fetches ended: entry n is the
\* input itself when it is inline data, the data URI of the fetched bytes
\* when its fetch succeeded, and the input URL when its fetch failed; and
\* a failed fetch does not keep the generation request from being sent.
C25_OrderPreservingNormalisation ==
    syncHandler = "handleVolcEngine" =>
        /\ pc = "done" => Len(syncCalls) = 1
        /\ \A c \in 1 .. Len(syncCalls) :
              /\ Len(syncCalls[c].images) = Len(syncImages)
              /\ \A n \in 1 .. Len(syncImages) :
                    /\ StartsWith(syncImages[n], DataImageScheme) =>
                            syncCalls[c].images[n] = syncImages[n]
                    /\ FetchSucceeded(n) =>
                            syncCalls[c].images[n] =
                                Base64Prefix \o <<syncImages[n][Len(syncImages[n])]>>
                    /\ FetchFailed(n) => syncCalls[c].images[n] = syncImages[n]
                    /\ StartsWith(syncImages[n], DataImageScheme)
                            \/ FetchSucceeded(n) \/ FetchFailed(n)
                            \/ syncCalls[c].images[n] = syncImages[n]

\* Two URLs, the fetch of the second ended first and well, the fetch of the
\* first ended last and failed, and the request was sent and answered.
C25_Witness ==
    /\ syncHandler = "handleVolcEngine"
    /\ syncImages = <<UrlA, UrlB>>
    /\ downloads = <<[image |-> 2, ok |-> TRUE], [image |-> 1, ok |-> FALSE]>>
    /\ Len(syncCalls) = 1
    /\ syncCalls[1].images = <<UrlA, Base64Prefix \o <<"B">> >>
    /\ syncResult.kind = "returns"

\* C26: a download that failed does not fail the request: the handler goes
\* on, its generation request is sent, and it has not thrown before that.
C26_DownloadFailureAbsorbed ==
    (\E n \in 1 .. Len(syncImages) : FetchFailed(n)) =>
        /\ pc = "done" => Len(syncCalls) = 1
        /\ syncCalls = <<>> => syncResult.kind # "throws"

EditEndpoint == "https://ai.gitee.com/v1/images/edits"

GenerationEndpoint == "https://ai.gitee.com/v1/images/generations"

\* the base64 text of an input image: what follows the comma of a data
\* URI, or the bytes behind a URL
Base64OfInput(img) ==
    IF StartsWith(img, DataImageScheme)
    THEN SubSeq(img, Len(Base64Prefix) + 1, Len(img))
    ELSE <<img[Len(img)]>>

\* C27: handleGitee works in one of two modes, chosen by the image list
\* alone.  With images it sends at most one generation request, a
\* multipart POST to the edit endpoint that carries the first input image
\* only and the size 1024x1024 whatever size was requested; without images
\* it sends exactly one JSON POST to the generation endpoint; and neither
\* mode calls the endpoint of the other.
C27_GiteeTwoModes ==
    syncHandler = "handleGitee" =>
        /\ Len(syncCalls) <= 1
        /\ Len(syncImages) > 0 =>
              \A c \in 1 .. Len(syncCalls) :
                  /\ syncCalls[c].url = EditEndpoint
                  /\ syncCalls[c].kind = "multipart"
                  /\ syncCalls[c].size = Size1024
                  /\ syncCalls[c].images = <<Base64OfInput(syncImages[1])>>
        /\ Len(syncImages) = 0 =>
              /\ pc = "done" => Len(syncCalls) = 1
              /\ \A c \in 1 .. Len(syncCalls) :
                    /\ syncCalls[c].url = GenerationEndpoint
                    /\ syncCalls[c].kind = "json"
                    /\ syncCalls[c].images = <<>>

\* Two input images and a requested size of 512x768: the edit request
\* went out with the first image and the size 1024x1024.
C27_Witness ==
    /\ syncHandler = "handleGitee"
    /\ syncImages = <<UrlB, InlineD>>
    /\ syncBody.size = <<"5", "1", "2", "x", "7", "6", "8">>
    /\ pc = "done"
    /\ Len(syncCalls) = 1
    /\ syncCalls[1].images = << <<"B">> >>
    /\ syncCalls[1].size = Size1024

\* the models each adapter and mode accepts, and the one it falls back to
Whitelist(handler, hasImages) ==
    CASE handler = "handleVolcEngine" ->
            {"doubao-seedream-4-5-251128", "doubao-seedream-4-0-250828"}
      [] handler = "handleGitee" /\ hasImages ->
            {"Qwen-Image-Edit", "HiDream-E1-Full", "FLUX.1-dev", "HelloMeme", "Kolors",
             "OmniConsistency"}
      [] handler = "handleGitee" /\ ~hasImages -> {"z-image-turbo"}
      [] handler = "handleModelScope" -> {"Tongyi-MAI/Z-Image-Turbo"}
      [] handler = "handleHuggingFace" -> {"z-image-turbo", "Qwen-Image-Edit-2511"}

DefaultModel(handler, hasImages) ==
    CASE handler = "handleVolcEngine" -> "doubao-seedream-4-5-251128"
      [] handler = "handleGitee" /\ hasImages -> "Qwen-Image-Edit"
      [] handler = "handleGitee" /\ ~hasImages -> "z-image-turbo"
      [] handler = "handleModelScope" -> "Tongyi-MAI/Z-Image-Turbo"
      [] handler = "handleHuggingFace" -> "Qwen-Image-Edit-2511"

IsDigits(str) == str # <<>> /\ \A n \in 1 .. Len(str) : str[n] \in Digits

WellFormedSize(size) ==
    \/ size = Size2K
    \/ \E k \in 1 .. Len(size) :
          /\ size[k] = "x"
          /\ IsDigits(SubSeq(size, 1, k - 1))
          /\ IsDigits(SubSeq(size, k + 1, Len(size)))

DefaultSize(handler, hasImages) ==
    CASE handler = "handleVolcEngine" -> Size2K
      [] handler = "handleGitee" /\ hasImages -> Size1024
      [] handler = "handleGitee" /\ ~hasImages -> Size2048
      [] handler = "handleModelScope" -> Size2048
      [] handler = "handleHuggingFace" -> Size2048

\* C29: a requested size that is absent, or that is no size at all, is
\* replaced by the default size of the adapter and mode before the backend
\* call: the request carries the default size (for handleHuggingFace its
\* height and width, 2048 and 2048).
C29_UnrecognizedSizeReplaced ==
    (pc = "requested" /\ ~WellFormedSize(syncBody.size)) =>
        IF syncHandler = "handleHuggingFace"
        THEN syncCalls[1].data[2] = 2048 /\ syncCalls[1].data[3] = 2048
        ELSE syncCalls[1].size = DefaultSize(syncHandler, Len(syncImages) > 0)

\* call c has ended, with the response or with an error
Ended(c) == fetchCalls[c].pc \in {"returned", "failed"}

\* C30: a call of fetchWithTimeout that has no response when its timeout
\* has passed is aborted and fails; the timer of a call that has ended,
\* with a response or an error, is no longer armed; an abort is triggered
\* only for a call still waiting whose own delay has passed, and that step
\* changes nothing of any other call.
C30_TimeoutAbortsOwnCallOnly ==
    /\ [](fetchCalls # <<>> =>
            \A c \in CallIds :
                /\ (fetchCalls[c].pc = "pending" /\ ~fetchCalls[c].aborted) =>
                        now <= fetchCalls[c].deadline
                /\ fetchCalls[c].aborted =>
                        /\ fetchCalls[c].pc \in {"pending", "failed"}
                        /\ fetchCalls[c].pc = "failed" => fetchCalls[c].error = "AbortError"
                /\ Ended(c) => fetchCalls[c].timeoutId # "armed"
                /\ fetchCalls[c].pc = "returned" => ~fetchCalls[c].aborted)
    /\ [][fetchCalls # <<>> =>
            \A c \in CallIds :
                (fetchCalls'[c].aborted /\ ~fetchCalls[c].aborted) =>
                    /\ fetchCalls[c].pc = "pending"
                    /\ now >= fetchCalls[c].deadline
                    /\ \A d \in CallIds \ {c} : fetchCalls'[d] = fetchCalls[d]]_vars

\* The first call was aborted at its timeout and failed; the second,
\* started later and still within its delay, returned its response after
\* that.
C30_Witness ==
    /\ fetchCalls # <<>>
    /\ fetchCalls[1].pc = "failed"
    /\ fetchCalls[1].error = "AbortError"
    /\ fetchCalls[2].pc = "returned"
    /\ fetchCalls[2].deadline > fetchCalls[1].deadline
    /\ now = fetchCalls[2].deadline
    /\ ~fetchCalls[2].aborted

\* the image reference of entry n of the backend's list: the inline form
\* when it has base64 data, its URL otherwise
TargetOfEntry(n) ==
    IF backendData.images[n].b64_json # <<>>
    THEN DataImageScheme \o <<"p", "n", "g", ";", "b", "a", "s", "e", "6", "4", ",">>
            \o backendData.images[n].b64_json
    ELSE backendData.images[n].url

\* the content made of the first n entries of the list: the markdown image
\* of every entry with an image reference, a blank line between two of them
RECURSIVE FormattedUpTo(_)
FormattedUpTo(n) ==
    IF n = 0 THEN <<>>
    ELSE IF n \notin ImageBearing THEN FormattedUpTo(n - 1)
    ELSE IF FormattedUpTo(n - 1) = <<>> THEN Md(GeneratedImageAlt, TargetOfEntry(n))
    ELSE FormattedUpTo(n - 1) \o <<"\n", "\n">> \o Md(GeneratedImageAlt, TargetOfEntry(n))

\* the image references of the entries that have one, in the list's order
RECURSIVE TargetsUpTo(_)
TargetsUpTo(n) ==
    IF n = 0 THEN <<>>
    ELSE IF n \in ImageBearing THEN Append(TargetsUpTo(n - 1), TargetOfEntry(n))
    ELSE TargetsUpTo(n - 1)

C32_ImageFieldByCount ==
    syncHandler = "handleVolcEngine" =>
        \A c \in 1 .. Len(syncCalls) :
            /\ Len(syncImages) = 0 =>
                    /\ syncCalls[c].imageField = "absent"
                    /\ syncCalls[c].images = <<>>
            /\ Len(syncImages) = 1 =>
                    /\ syncCalls[c].imageField = "single"
                    /\ Len(syncCalls[c].images) = 1
            /\ Len(syncImages) >= 2 =>
                    /\ syncCalls[c].imageField = "array"
                    /\ Len(syncCalls[c].images) = Len(syncImages)
                    /\ syncCalls[c].sequential_image_generation = "disabled"
            /\ Len(syncImages) < 2 =>
                    syncCalls[c].sequential_image_generation = "absent"

\* A request of one fetched image has been sent: the property holds the
\* image alone and the flag is left out.
C32_Witness ==
    /\ syncHandler = "handleVolcEngine"
    /\ syncImages = <<UrlA>>
    /\ Len(syncCalls) = 1
    /\ syncCalls[1].imageField = "single"
    /\ syncCalls[1].sequential_image_generation = "absent"

\* C33: the four pattern rules of detectProvider hold of pairwise disjoint
\* sets of credentials (an hf_ or ms- credential has a character that
\* neither regular expression admits at its place, a UUID has hyphens the
\* 30-60 alphanumeric pattern does not admit): at most one rule matches
\* the credential classified, and the four rules evaluated in any of
\* their 24 orders return the provider the source order returns.
C33_OrderInsignificant ==
    pc = "classified" =>
        LET matching == matchingRules(apiKey)
        IN  /\ Cardinality(matching) <= 1
            /\ firstMatch(SourceOrder, 1, matching) = provider \/ apiKey = <<>>
            /\ \A order \in RuleOrders : detectProviderIn(order, apiKey) = provider

\* A canonical UUID has been classified; the order that tries the 30-60
\* alphanumeric rule first and the UUID rule last returns VolcEngine too.
C33_Witness ==
    /\ pc = "classified"
    /\ IsCanonicalUuid(apiKey)
    /\ provider = "VolcEngine"
    /\ detectProviderIn(<<"giteeRegex", "ms-", "hf_", "uuidRegex">>, apiKey) = "VolcEngine"

\* C33 as stated: for at least one credential, the one received or any
\* other, some other order of the four rules returns another provider than
\* the source order.
C33_OrderSignificantAsClaimed ==
    \E key \in KeyInputs \cup {apiKey} :
        \E order \in RuleOrders :
            detectProviderIn(order, key) # detectProviderIn(SourceOrder, key)

=============================================================================
